---- MODULE Spec2Model ----
(***************************************************************************)
(* Dialogue dispatch engine of Jarvis: the ConversationRouter, the task    *)
(* handler, the general handler and the two LangGraph domain pipelines     *)
(* (budget, shopping), modelled from src/jarvis/llm/graphs.                *)
(*                                                                         *)
(* Confidences are kept in tenths (0.6 is 6).  Russian string literals of  *)
(* the source are transliterated.                                          *)
(***************************************************************************)
EXTENDS Integers, Sequences, FiniteSets, TLC

VARIABLES pc, msg, cls, result, invoked, generalWhy, taskCls, ps, trace, repoLog,
          classifyCalls, store, msgCount, llmFailed,
          budget, prevBudget, lastOp, ledgerOps, stats,
          goal, prevGoal, goalOp, goalOps, now,
          budgets, prevBudgets, storeOp, today,
          listItems, listOp,
          txs, txModel, txOp,
          raceRuns, raceDb, raceDb0,
          bookTxs, bookBudget, bookOps

vars == <<pc, msg, cls, result, invoked, generalWhy, taskCls, ps, trace, repoLog,
          classifyCalls, store, msgCount, llmFailed,
          budget, prevBudget, lastOp, ledgerOps, stats,
          goal, prevGoal, goalOp, goalOps, now,
          budgets, prevBudgets, storeOp, today,
          listItems, listOp,
          txs, txModel, txOp,
          raceRuns, raceDb, raceDb0,
          bookTxs, bookBudget, bookOps>>

\* the message-routing state, the state of one Budget object and the state
\* of one FinancialGoal
routerVars == <<pc, msg, cls, result, invoked, generalWhy, taskCls, ps, trace, repoLog,
                classifyCalls, store, msgCount, llmFailed>>

ledgerVars == <<budget, prevBudget, lastOp, ledgerOps, stats>>

goalVars == <<goal, prevGoal, goalOp, goalOps, now>>

storeVars == <<budgets, prevBudgets, storeOp, today>>

shopVars == <<listItems, listOp>>

txVars == <<txs, txModel, txOp>>

raceVars == <<raceRuns, raceDb, raceDb0>>

bookVars == <<bookTxs, bookBudget, bookOps>>

\* what the steps of one part of the program leave alone
offRouter == <<ledgerVars, goalVars, storeVars, shopVars, txVars, raceVars, bookVars>>

offLedger == <<routerVars, goalVars, storeVars, shopVars, txVars, raceVars, bookVars>>

offGoal == <<routerVars, ledgerVars, storeVars, shopVars, txVars, raceVars, bookVars>>

offStore == <<routerVars, ledgerVars, goalVars, shopVars, txVars, raceVars, bookVars>>

offShop == <<routerVars, ledgerVars, goalVars, storeVars, txVars, raceVars, bookVars>>

offTx == <<routerVars, ledgerVars, goalVars, storeVars, shopVars, raceVars, bookVars>>

offRace == <<routerVars, ledgerVars, goalVars, storeVars, shopVars, txVars, bookVars>>

offBook == <<routerVars, ledgerVars, goalVars, storeVars, shopVars, txVars, raceVars>>

(***************************************************************************)
(* Bounds of the model.                                                    *)
(***************************************************************************)
MaxMessages == 2
MaxHist == 3
MaxPayload == 2

(***************************************************************************)
(* Program constants.                                                      *)
(***************************************************************************)
RouterThreshold == 6
RouterDefaultConfidence == 3
BudgetThreshold == 6
ShoppingThreshold == 6
TaskThreshold == 6
PipelineDefaultConfidence == 5
TaskDefaultConfidence == 5
GeneralConfidence == 10
RouterHistoryWindow == 2
GeneralHistoryWindow == 5

Families == {"famA", "famB"}
NoFamily == "None"
FamilyInputs == Families \cup {NoFamily, ""}

\* variant: "if family_id is None"
FamilyAbsent_NoneOnly(f) == f = NoFamily

\* "if not family_id": None and the empty string are both absent
FamilyAbsent(f) == f \in {NoFamily, ""}

DomainLabels == {"task_management", "shopping", "budget", "family", "general", "unknown"}
ConfInputs == {4, 6}

BudgetIntents == {"add_expense", "add_income", "view_budget", "create_budget",
                  "update_budget", "view_transactions", "delete_transactions",
                  "create_goal", "update_goal", "view_goals", "view_reports", "other"}
ShoppingIntents == {"add_item", "view_list", "mark_purchased", "remove_item",
                    "clear_list", "create_list", "change_priority", "other"}
TaskIntents == {"create_task", "list_tasks", "update_task", "delete_task",
                "mark_completed", "task_question", "other"}

OpSuccess == "uspeshno"
ErrorMarker == "proizoshla oshibka"
NoneValue == "None"
AbsentKey == "absent"
NoConfidence == 0 - 1

\* a confidence the LLM may answer outside [0, 1] (1.5)
OutOfRangeConfidence == 15

\* an intent string outside the prompt's vocabulary (BudgetIntent.intent and
\* ShoppingIntent.intent are plain str fields)
OutOfVocabulary == "unknown_intent"

\* TransactionData.amount is Optional[float]: None when the LLM leaves it out
NoAmount == 0 - 2
NegativeAmount == 0 - 1

(***************************************************************************)
(* Chat history: a sequence of entries, "ok" (has role and content) or     *)
(* "bad" (a key is missing, so msg["role"] / msg["content"] raises).       *)
(***************************************************************************)
Histories == UNION {[1..n -> {"ok", "bad"}] : n \in 0..MaxHist}

\* chat_history[-n:] if len(chat_history) >= n else chat_history
LastN(h, n) == IF Len(h) >= n THEN SubSeq(h, Len(h) - n + 1, Len(h)) ELSE h

HasBadEntry(h) == \E i \in 1..Len(h) : h[i] = "bad"

\* What one route_message call reads of its chat_history argument: the
\* router's context loop reads the last RouterHistoryWindow entries, the
\* general graph the last GeneralHistoryWindow entries; nothing else of the
\* history is read, so a message in flight carries these two facts.
Message(f, h) ==
    [family |-> f,
     recentBad |-> HasBadEntry(LastN(h, RouterHistoryWindow)),
     windowBad |-> HasBadEntry(LastN(h, GeneralHistoryWindow))]

(***************************************************************************)
(* Handler results (Python dict or None).                                  *)
(***************************************************************************)
NoneResult == [isNone |-> TRUE, hasResponse |-> FALSE, response |-> NoneValue,
               domain |-> AbsentKey, intent |-> AbsentKey, confidence |-> NoConfidence]

Dict(hasResp, resp, dom, intent, conf) ==
    [isNone |-> FALSE, hasResponse |-> hasResp, response |-> resp,
     domain |-> dom, intent |-> intent, confidence |-> conf]

\* result.update(intent_classification): domain and confidence are overwritten
UpdateWithClassification(r, c) ==
    [r EXCEPT !.domain = c.domain, !.confidence = c.confidence]

\* "not result or 'response' not in result"
NeedsFallback(r) == r.isNone \/ ~r.hasResponse

(***************************************************************************)
(* Router classification (_classify_intent).                               *)
(***************************************************************************)
RouterDefault == [domain |-> "general", confidence |-> RouterDefaultConfidence, numeric |-> TRUE]

NoClassification == [domain |-> AbsentKey, confidence |-> NoConfidence, numeric |-> TRUE]

RouterLLMOutputs ==
    [kind : {"json"}, domain : DomainLabels, confidence : ConfInputs, numeric : {TRUE}]
    \cup [kind : {"json"}, domain : {"budget", "general"}, confidence : {NoConfidence}, numeric : {FALSE}]
    \cup [kind : {"json"}, domain : {"budget"}, confidence : {OutOfRangeConfidence}, numeric : {TRUE}]
    \cup [kind : {"incomplete", "garbage", "llm_error"}, domain : {AbsentKey},
          confidence : {NoConfidence}, numeric : {TRUE}]

\* the answer is JSON with a domain and a numeric confidence, as the prompt
\* asks
FitsRouterSchema(out) == out.kind = "json" /\ out.numeric

\* json.loads + the "domain"/"confidence" key check; any exception gives the default
ParseClassification(out) ==
    IF out.kind = "json"
    THEN [domain |-> out.domain, confidence |-> out.confidence, numeric |-> out.numeric]
    ELSE RouterDefault

\* variant: a lower threshold
LowConfidence_Lower(c) == c.confidence < RouterThreshold - 2

LowConfidence(c) == c.confidence < RouterThreshold

\* variant: the shopping branch calls the budget graph
DomainHandler_Misroute(domain) ==
    CASE domain = "task_management" -> "task"
      [] domain = "shopping" -> "budget"
      [] domain = "budget" -> "budget"
      [] OTHER -> "general"

\* the if/elif chain of route_message
DomainHandler(domain) ==
    CASE domain = "task_management" -> "task"
      [] domain = "shopping" -> "shopping"
      [] domain = "budget" -> "budget"
      [] OTHER -> "general"

(***************************************************************************)
(* Pipeline state (the LangGraph state dict of one run).                   *)
(***************************************************************************)
IdlePs == [domain |-> "none", node |-> "none", intent |-> AbsentKey, conf |-> NoConfidence,
           hasData |-> FALSE, classData |-> FALSE, payload |-> 0,
           opResult |-> AbsentKey, hasResponse |-> FALSE, response |-> NoneValue]

StartPs(d) == [IdlePs EXCEPT !.domain = d, !.node = "start"]

EmptyStore == [f \in Families |-> [lists |-> 0, items |-> 0, hasBudget |-> FALSE, hasGoals |-> FALSE, hasTx |-> FALSE]]

NoMsg == Message(NoFamily, <<>>)

NoTaskCls == [intent |-> AbsentKey, confidence |-> NoConfidence]

RouterInit ==
    /\ pc = "idle"
    /\ msg = NoMsg
    /\ cls = NoClassification
    /\ result = NoneResult
    /\ invoked = {}
    /\ generalWhy = "none"
    /\ taskCls = NoTaskCls
    /\ ps = IdlePs
    /\ trace = <<>>
    /\ repoLog = <<>>
    /\ classifyCalls = 0
    /\ store = EmptyStore
    /\ msgCount = 0
    /\ llmFailed = {}

\* no Budget object is under observation while messages are routed
NoBudget == [family |-> "none"]

NoOp == [op |-> "none"]

LedgerIdle ==
    /\ budget = NoBudget
    /\ prevBudget = NoBudget
    /\ lastOp = NoOp
    /\ ledgerOps = 0
    /\ stats = <<>>

\* no FinancialGoal is under observation
NoGoal == [family |-> "none"]

NoInstant == [y |-> 0, m |-> 0, d |-> 0]

GoalIdle ==
    /\ goal = NoGoal
    /\ prevGoal = NoGoal
    /\ goalOp = NoOp
    /\ goalOps = 0
    /\ now = NoInstant

\* no budget is stored and no creation call has been made
NoBudgetCall == [op |-> "none"]

NoToday == [y |-> 0, m |-> 0]

StoreIdle ==
    /\ budgets = <<>>
    /\ prevBudgets = <<>>
    /\ storeOp = NoBudgetCall
    /\ today = NoToday

\* no ShoppingList object is under observation
NoListCall == [op |-> "none"]

ShopIdle ==
    /\ listItems = <<>>
    /\ listOp = NoListCall

\* no Transaction has been constructed, no repository call has been made
NoTransaction == [transaction_type |-> "none"]

NoTxCall == [op |-> "none"]

TxIdle ==
    /\ txs = <<>>
    /\ txModel = NoTransaction
    /\ txOp = NoTxCall

\* no pipeline runs are interleaved
NoRuns == <<>>

NoDb == [budget |-> NoBudget, txs |-> <<>>, lists |-> <<>>]

RaceIdle ==
    /\ raceRuns = NoRuns
    /\ raceDb = NoDb
    /\ raceDb0 = NoDb

\* no linked transactions are under observation
BookIdle ==
    /\ bookTxs = <<>>
    /\ bookBudget = NoBudget
    /\ bookOps = 0

Init ==
    /\ RouterInit
    /\ LedgerIdle
    /\ GoalIdle
    /\ StoreIdle
    /\ ShopIdle
    /\ TxIdle
    /\ RaceIdle
    /\ BookIdle

(***************************************************************************)
(* route_message entry: "if not family_id" goes to the general graph.      *)
(***************************************************************************)
RouteMessage ==
    /\ pc = "idle"
    /\ msgCount < MaxMessages
    /\ \E f \in FamilyInputs, h \in Histories :
         /\ msg' = Message(f, h)
         /\ IF FamilyAbsent(f)
            THEN pc' = "general" /\ generalWhy' = "no_family"
            ELSE pc' = "classify" /\ generalWhy' = "none"
    /\ UNCHANGED <<cls, result, invoked, taskCls, ps, trace, repoLog, classifyCalls, store, msgCount, llmFailed>>
    /\ UNCHANGED offRouter

(***************************************************************************)
(* _classify_intent followed by the synchronous routing decision.          *)
(***************************************************************************)
ClassifyDomain ==
    /\ pc = "classify"
    /\ IF msg.recentBad
       THEN \* KeyError while building the context, before the try block
            /\ pc' = "raised"
            /\ UNCHANGED <<cls, classifyCalls, generalWhy, ps, llmFailed>>
       ELSE \E out \in RouterLLMOutputs :
            LET c == ParseClassification(out) IN
            /\ cls' = c
            /\ classifyCalls' = classifyCalls + 1
            /\ llmFailed' = IF FitsRouterSchema(out) THEN llmFailed ELSE llmFailed \cup {"router"}
            /\ IF ~c.numeric
               THEN \* "confidence < 0.6" on a non-number: TypeError
                    pc' = "raised" /\ UNCHANGED <<generalWhy, ps>>
               ELSE IF LowConfidence(c)
               THEN pc' = "general" /\ generalWhy' = "low_confidence" /\ UNCHANGED ps
               ELSE LET h == DomainHandler(c.domain) IN
                    IF h = "task"
                    THEN pc' = "task" /\ UNCHANGED <<generalWhy, ps>>
                    ELSE IF h \in {"shopping", "budget"}
                    THEN pc' = "pipeline" /\ ps' = StartPs(h) /\ UNCHANGED generalWhy
                    ELSE pc' = "general" /\ generalWhy' = "other_domain" /\ UNCHANGED ps
    /\ UNCHANGED <<msg, result, invoked, taskCls, trace, repoLog, store, msgCount>>
    /\ UNCHANGED offRouter

(***************************************************************************)
(* GeneralConversationGraph.process_message, and what route_message does   *)
(* with its result at each of its four call sites.                         *)
(***************************************************************************)
GeneralApology == "general_apology"

GeneralResult(windowBad, llmOk) ==
    IF windowBad \/ ~llmOk
    THEN Dict(TRUE, GeneralApology, "general", "error", GeneralConfidence)
    ELSE Dict(TRUE, "general_text", "general", "general_conversation", GeneralConfidence)

\* variant: the classification is not merged into the reply
MergeAfterGeneral_NoUpdate(why, r, c) == r

\* the reply route_message returns after a general-graph call
MergeAfterGeneral(why, r, c) ==
    IF why = "no_family" THEN r ELSE UpdateWithClassification(r, c)

GeneralProcess ==
    /\ pc = "general"
    /\ \E llmOk \in BOOLEAN :
         result' = MergeAfterGeneral(generalWhy, GeneralResult(msg.windowBad, llmOk), cls)
    /\ invoked' = invoked \cup {"general"}
    /\ pc' = "done"
    /\ UNCHANGED <<msg, cls, generalWhy, taskCls, ps, trace, repoLog, classifyCalls, store, msgCount, llmFailed>>
    /\ UNCHANGED offRouter

(***************************************************************************)
(* After a domain handler returned: fallback check and merge.              *)
(***************************************************************************)
AfterDomainHandler(r) ==
    IF NeedsFallback(r)
    THEN /\ pc' = "general"
         /\ generalWhy' = "fallback"
         /\ result' = r
    ELSE /\ pc' = "done"
         /\ generalWhy' = generalWhy
         /\ result' = UpdateWithClassification(r, cls)

(***************************************************************************)
(* TaskGraph.process_message.                                              *)
(***************************************************************************)
TaskLLMOutputs ==
    [ok : {TRUE}, intent : TaskIntents, confidence : ConfInputs]
    \cup [ok : {FALSE}, intent : {"task_question"}, confidence : {TaskDefaultConfidence}]

TaskHandled == {"create_task", "list_tasks", "update_task", "delete_task", "mark_completed"}

TaskResult(out) ==
    IF out.confidence < TaskThreshold
    THEN NoneResult
    ELSE IF out.intent \in TaskHandled
    THEN Dict(TRUE, "task_text", "task_management", out.intent, out.confidence)
    ELSE \* _handle_general_task_query is not defined: AttributeError, caught, None
         NoneResult

TaskProcess ==
    /\ pc = "task"
    /\ invoked' = invoked \cup {"task"}
    /\ \E out \in TaskLLMOutputs :
         /\ taskCls' = [intent |-> out.intent, confidence |-> out.confidence]
         /\ AfterDomainHandler(TaskResult(out))
    /\ UNCHANGED <<msg, cls, ps, trace, repoLog, classifyCalls, store, msgCount, llmFailed>>
    /\ UNCHANGED offRouter

(***************************************************************************)
(* The two domain graphs: edges and conditional routing.                   *)
(***************************************************************************)
\* variant: the intent = "other" test is missing
BudgetRouteByIntent_NoOtherCheck(st) ==
    IF st.conf < BudgetThreshold THEN "not_budget_related"
    ELSE IF st.intent \in {"add_expense", "add_income"} /\ ~st.hasData THEN "needs_transaction_extraction"
    ELSE IF st.intent \in {"create_budget", "update_budget"} /\ ~st.hasData THEN "needs_budget_extraction"
    ELSE IF st.intent \in {"create_goal", "update_goal"} /\ ~st.hasData THEN "needs_goal_extraction"
    ELSE "direct_action"

BudgetRouteByIntent(st) ==
    IF st.conf < BudgetThreshold \/ st.intent = "other" THEN "not_budget_related"
    ELSE IF st.intent \in {"add_expense", "add_income"} /\ ~st.hasData THEN "needs_transaction_extraction"
    ELSE IF st.intent \in {"create_budget", "update_budget"} /\ ~st.hasData THEN "needs_budget_extraction"
    ELSE IF st.intent \in {"create_goal", "update_goal"} /\ ~st.hasData THEN "needs_goal_extraction"
    ELSE "direct_action"

\* variant: extraction is requested even when the items are already there
ShoppingRouteByIntent_AlwaysExtract(st) ==
    IF st.conf < ShoppingThreshold \/ st.intent = "other" THEN "not_shopping_related"
    ELSE IF st.intent \in {"add_item", "mark_purchased", "remove_item", "change_priority"}
    THEN "needs_extraction"
    ELSE "direct_action"

ShoppingRouteByIntent(st) ==
    IF st.conf < ShoppingThreshold \/ st.intent = "other" THEN "not_shopping_related"
    ELSE IF st.intent \in {"add_item", "mark_purchased", "remove_item", "change_priority"} /\ ~st.hasData
    THEN "needs_extraction"
    ELSE "direct_action"

\* add_conditional_edges of _build_graph
BudgetConditionalEdges(key) ==
    CASE key = "needs_transaction_extraction" -> "extract_transaction"
      [] key = "needs_budget_extraction" -> "extract_budget_data"
      [] key = "needs_goal_extraction" -> "extract_goal_data"
      [] key = "direct_action" -> "process_budget_action"
      [] OTHER -> "end"

ShoppingConditionalEdges(key) ==
    CASE key = "needs_extraction" -> "extract_items"
      [] key = "direct_action" -> "process_shopping_action"
      [] OTHER -> "end"

\* add_edge of _build_graph
BudgetEdge(node) ==
    CASE node = "start" -> "classify_intent"
      [] node \in {"extract_transaction", "extract_budget_data", "extract_goal_data"} -> "process_budget_action"
      [] node = "process_budget_action" -> "generate_response"
      [] OTHER -> "end"

\* variant: the extraction node is wired to the response node
ShoppingEdge_SkipExecute(node) ==
    CASE node = "start" -> "classify_intent"
      [] node = "extract_items" -> "generate_response"
      [] node = "process_shopping_action" -> "generate_response"
      [] OTHER -> "end"

ShoppingEdge(node) ==
    CASE node = "start" -> "classify_intent"
      [] node = "extract_items" -> "process_shopping_action"
      [] node = "process_shopping_action" -> "generate_response"
      [] OTHER -> "end"

Edge(d, node) == IF d = "budget" THEN BudgetEdge(node) ELSE ShoppingEdge(node)

AfterClassify(st) ==
    IF st.domain = "budget"
    THEN BudgetConditionalEdges(BudgetRouteByIntent(st))
    ELSE ShoppingConditionalEdges(ShoppingRouteByIntent(st))

ExtractNodes == {"extract_transaction", "extract_budget_data", "extract_goal_data", "extract_items"}
ActionNodes == {"process_budget_action", "process_shopping_action"}

(***************************************************************************)
(* START node.                                                             *)
(***************************************************************************)
PipeStart ==
    /\ pc = "pipeline"
    /\ ps.node = "start"
    /\ invoked' = invoked \cup {ps.domain}
    /\ trace' = <<"start">>
    /\ ps' = [ps EXCEPT !.node = Edge(ps.domain, "start")]
    /\ UNCHANGED <<pc, msg, cls, result, generalWhy, taskCls, repoLog, classifyCalls, store, msgCount, llmFailed>>
    /\ UNCHANGED offRouter

(***************************************************************************)
(* CLASSIFY_INTENT node: the intent classifier chain, the node's update of *)
(* the state dict and the conditional edge.  payload is the extracted      *)
(* quantity the action validates: the amount (budget) or the number of     *)
(* items (shopping).                                                       *)
(***************************************************************************)
TransactionIntents == {"add_expense", "add_income"}
BudgetDataIntents == {"create_budget", "update_budget"}
GoalIntents == {"create_goal", "update_goal"}

\* the values the parsed record can carry for an intent: an amount (None,
\* negative, zero, positive) for a transaction, a target amount (a required
\* float) for a goal, a number of category limits or of items otherwise
PayloadInputs(intent) ==
    IF intent \in TransactionIntents THEN {NoAmount, NegativeAmount} \cup 0..MaxPayload
    ELSE IF intent \in GoalIntents THEN {NegativeAmount} \cup 0..MaxPayload
    ELSE 0..MaxPayload

\* ok: the classifier's LLM call and parse succeeded; data: which record of
\* the intent's class the answer carried; payload: the value the classifier's
\* answer, or the extractor it calls for a missing record, gives;
\* extractOk: that extractor's LLM call and parse succeeded
BudgetLLMOutputs ==
    {o \in [ok : {TRUE}, intent : BudgetIntents \cup {OutOfVocabulary}, confidence : ConfInputs,
            data : {"none", "no_description", "full"},
            payload : {NoAmount, NegativeAmount} \cup 0..MaxPayload, extractOk : BOOLEAN] :
        /\ o.payload \in PayloadInputs(o.intent)
        /\ ~o.extractOk => o.payload = 0}
    \cup [ok : {FALSE}, intent : {"other"}, confidence : {PipelineDefaultConfidence},
          data : {"none"}, payload : {0}, extractOk : {TRUE}]

ShoppingLLMOutputs ==
    [ok : {TRUE}, intent : ShoppingIntents \cup {OutOfVocabulary}, confidence : ConfInputs,
     data : {"none", "full"}, payload : 0..MaxPayload]
    \cup [ok : {FALSE}, intent : {"other"}, confidence : {PipelineDefaultConfidence},
          data : {"none"}, payload : {0}]

\* the extractor BudgetIntentClassifier.process calls for this answer, if any
ClassifierExtractor(out) ==
    IF ~out.ok THEN "none"
    ELSE IF out.intent \in TransactionIntents /\ out.data \in {"none", "no_description"}
    THEN "transaction"
    ELSE IF out.intent \in BudgetDataIntents /\ out.data = "none" THEN "budget"
    ELSE IF out.intent \in GoalIntents /\ out.data = "none" THEN "goal"
    ELSE "none"

\* BudgetIntentClassifier.process: a missing record of the intent's class is
\* filled in by the matching extractor (which never raises); the node then
\* stores every record that is not None.
BudgetClassified(out) ==
    IF ~out.ok
    THEN [intent |-> "other", conf |-> PipelineDefaultConfidence, hasData |-> FALSE, payload |-> 0]
    ELSE [intent |-> out.intent, conf |-> out.confidence,
          hasData |-> IF out.intent \in {"add_expense", "add_income", "create_budget",
                                         "update_budget", "create_goal", "update_goal"}
                      THEN TRUE
                      ELSE out.data # "none",
          payload |-> IF ClassifierExtractor(out) # "none" /\ ~out.extractOk THEN 0
                      ELSE out.payload]

\* ShoppingIntentClassifier.process and "if intent_result.items:"
ShoppingClassified(out) ==
    IF ~out.ok
    THEN [intent |-> "other", conf |-> PipelineDefaultConfidence, hasData |-> FALSE, payload |-> 0]
    ELSE [intent |-> out.intent, conf |-> out.confidence,
          hasData |-> (out.data # "none" /\ out.payload > 0),
          payload |-> IF out.data # "none" THEN out.payload ELSE 0]

\* which LLM-backed steps of CLASSIFY_INTENT failed (LLM error or parse error)
ClassifyFailures(d, o) ==
    (IF ~o.ok THEN {"intent"} ELSE {})
    \cup (IF d = "budget" /\ ClassifierExtractor(o) # "none" /\ ~o.extractOk
          THEN {"extract"} ELSE {})

PipeClassifyIntent ==
    /\ pc = "pipeline"
    /\ ps.node = "classify_intent"
    /\ \E o \in IF ps.domain = "budget" THEN BudgetLLMOutputs ELSE ShoppingLLMOutputs :
         LET c == IF ps.domain = "budget" THEN BudgetClassified(o) ELSE ShoppingClassified(o)
             st == [ps EXCEPT !.intent = c.intent, !.conf = c.conf, !.hasData = c.hasData,
                              !.classData = c.hasData, !.payload = c.payload]
         IN /\ ps' = [st EXCEPT !.node = AfterClassify(st)]
            /\ llmFailed' = llmFailed \cup ClassifyFailures(ps.domain, o)
    /\ trace' = Append(trace, "classify_intent")
    /\ UNCHANGED <<pc, msg, cls, result, invoked, generalWhy, taskCls, repoLog, classifyCalls, store, msgCount>>
    /\ UNCHANGED offRouter

(***************************************************************************)
(* EXTRACT nodes: on failure the extractor's default record (amount 0.0,   *)
(* no items) is stored.                                                    *)
(***************************************************************************)
PipeExtract ==
    /\ pc = "pipeline"
    /\ ps.node \in ExtractNodes
    /\ \E ok \in BOOLEAN, p \in PayloadInputs(ps.intent) :
         /\ ~ok => p = 0
         /\ ps' = [ps EXCEPT !.hasData = TRUE, !.payload = p, !.node = Edge(ps.domain, ps.node)]
         /\ llmFailed' = IF ok THEN llmFailed ELSE llmFailed \cup {"extract"}
    /\ trace' = Append(trace, ps.node)
    /\ UNCHANGED <<pc, msg, cls, result, invoked, generalWhy, taskCls, repoLog, classifyCalls, store, msgCount>>
    /\ UNCHANGED offRouter

(***************************************************************************)
(* EXECUTE_ACTION: the repository calls each intent handler makes.         *)
(* payload is the amount, the number of category limits or the number of   *)
(* items; matches stands for the data-dependent lookups of a handler: the  *)
(* number of stored items (or goals) whose name matches, and for           *)
(* update_budget whether a name or an income plan was extracted.           *)
(***************************************************************************)
Min(a, b) == IF a < b THEN a ELSE b

Rep(m, n) == [i \in 1..n |-> m]

BudgetPlan(intent, payload, sf, matches) ==
    CASE intent = "add_expense" ->
           IF payload <= 0 THEN <<>>
           ELSE <<"create_expense", "get_current_budget">>
                \o (IF sf.hasBudget THEN <<"add_transaction_to_budget">> ELSE <<>>)
      [] intent = "add_income" ->
           IF payload <= 0 THEN <<>>
           ELSE <<"create_income", "get_current_budget">>
                \o (IF sf.hasBudget THEN <<"add_transaction_to_budget">> ELSE <<>>)
      [] intent = "view_budget" -> <<"get_current_budget">>
      [] intent = "create_budget" -> <<"create_monthly_budget">>
      [] intent = "update_budget" ->
           <<"get_current_budget">>
           \o (IF sf.hasBudget
               THEN (IF matches > 0 THEN <<"update_budget">> ELSE <<>>)
                    \o Rep("update_category_limit", payload)
               ELSE <<>>)
      [] intent = "view_transactions" -> <<"get_transactions_stats", "get_transactions_for_family">>
      [] intent = "create_goal" -> IF payload <= 0 THEN <<>> ELSE <<"create_goal">>
      [] intent = "update_goal" ->
           <<"get_goals_for_family">>
           \* goal_data comes from FinancialGoalData.dict(), whose priority is
           \* always set, so the updates of a found goal are never empty
           \o (IF sf.hasGoals /\ matches > 0 THEN <<"update_goal">> ELSE <<>>)
      [] intent = "view_goals" -> <<"get_goals_for_family", "get_goals_for_family">>
      [] intent = "view_reports" -> <<"get_transactions_stats">>
      [] OTHER -> <<>>

\* variant: view_list creates a list when the family has none
ShoppingPlan_ViewCreates(intent, payload, sf, matches) ==
    <<"get_active_list_for_family">> \o
    CASE intent = "create_list" -> <<"create_list">>
      [] intent = "add_item" ->
           (IF sf.lists = 0 THEN <<"create_list">> ELSE <<>>) \o Rep("add_item", payload)
      [] intent = "view_list" -> IF sf.lists = 0 THEN <<"create_list">> ELSE <<>>
      [] intent = "mark_purchased" ->
           IF sf.lists > 0 /\ payload > 0
           THEN Rep("mark_item_as_purchased", Min(matches, sf.items)) ELSE <<>>
      [] intent = "remove_item" ->
           IF sf.lists > 0 /\ payload > 0
           THEN Rep("remove_item", Min(matches, sf.items)) ELSE <<>>
      [] intent = "clear_list" ->
           IF sf.lists > 0 THEN Rep("remove_item", sf.items) ELSE <<>>
      [] intent = "change_priority" ->
           IF sf.lists > 0 /\ payload > 0
           THEN Rep("update_item", Min(matches, sf.items)) ELSE <<>>
      [] OTHER -> <<>>

ShoppingPlan(intent, payload, sf, matches) ==
    <<"get_active_list_for_family">> \o
    CASE intent = "create_list" -> <<"create_list">>
      [] intent = "add_item" ->
           (IF sf.lists = 0 THEN <<"create_list">> ELSE <<>>) \o Rep("add_item", payload)
      [] intent = "mark_purchased" ->
           IF sf.lists > 0 /\ payload > 0
           THEN Rep("mark_item_as_purchased", Min(matches, sf.items)) ELSE <<>>
      [] intent = "remove_item" ->
           IF sf.lists > 0 /\ payload > 0
           THEN Rep("remove_item", Min(matches, sf.items)) ELSE <<>>
      [] intent = "clear_list" ->
           IF sf.lists > 0 THEN Rep("remove_item", sf.items) ELSE <<>>
      [] intent = "change_priority" ->
           IF sf.lists > 0 /\ payload > 0
           THEN Rep("update_item", Min(matches, sf.items)) ELSE <<>>
      [] OTHER -> <<>>

RepoPlan(d, intent, payload, sf, matches) ==
    IF d = "budget" THEN BudgetPlan(intent, payload, sf, matches)
    ELSE ShoppingPlan(intent, payload, sf, matches)

\* operation_result when no step raised
BudgetOpResult(intent, payload, sf, matches) ==
    CASE intent = "add_expense" /\ payload <= 0 -> "ne udalos opredelit summu raskhoda"
      [] intent = "add_income" /\ payload <= 0 -> "ne udalos opredelit summu dokhoda"
      [] intent \in {"view_budget", "update_budget"} /\ ~sf.hasBudget -> "net aktivnogo byudzheta"
      [] intent \in {"view_transactions", "view_reports"} /\ ~sf.hasTx -> "net tranzaktsiy za ukazannyy period"
      [] intent = "create_goal" /\ payload <= 0 -> "ne udalos opredelit tselevuyu summu"
      [] intent = "update_goal" /\ ~sf.hasGoals -> "net aktivnykh finansovykh tseley"
      [] intent = "update_goal" /\ sf.hasGoals /\ matches = 0 -> "ne naydena tsel"
      [] intent = "view_goals" /\ ~sf.hasGoals -> "net finansovykh tseley"
      [] OTHER -> OpSuccess

ShoppingOpResult(intent, payload, sf, matches) ==
    CASE intent = "add_item" /\ payload = 0 -> "net tovarov dlya dobavleniya"
      [] intent \in {"view_list", "mark_purchased", "remove_item", "clear_list", "change_priority"}
         /\ sf.lists = 0 -> "net aktivnogo spiska pokupok"
      [] intent \in {"mark_purchased", "remove_item", "change_priority"} /\ payload = 0 -> "ne ukazany tovary"
      [] intent \in {"mark_purchased", "remove_item", "change_priority"}
         /\ Min(matches, sf.items) = 0 -> "tovary ne naydeny v spiske"
      [] OTHER -> OpSuccess

OpResult(d, intent, payload, sf, matches) ==
    IF d = "budget" THEN BudgetOpResult(intent, payload, sf, matches)
    ELSE ShoppingOpResult(intent, payload, sf, matches)

\* effect of one successful repository call on the family's stored entities
ApplyCall(sf, m) ==
    CASE m = "create_list" -> [sf EXCEPT !.lists = @ + 1]
      [] m = "add_item" -> [sf EXCEPT !.items = @ + 1]
      [] m = "remove_item" -> [sf EXCEPT !.items = IF @ > 0 THEN @ - 1 ELSE 0]
      [] m = "create_monthly_budget" -> [sf EXCEPT !.hasBudget = TRUE]
      [] m \in {"create_expense", "create_income"} -> [sf EXCEPT !.hasTx = TRUE]
      [] m = "create_goal" -> [sf EXCEPT !.hasGoals = TRUE]
      [] OTHER -> sf

RECURSIVE ApplyCalls(_, _)
ApplyCalls(sf, calls) ==
    IF calls = <<>> THEN sf ELSE ApplyCalls(ApplyCall(sf, Head(calls)), Tail(calls))

\* transaction_data.get("amount", 0.0) <= 0 with the key present and None:
\* the comparison raises TypeError
HandlerTypeError(d, intent, payload) ==
    d = "budget" /\ intent \in TransactionIntents /\ payload = NoAmount

\* a step of a handler other than a repository call that can raise:
\* datetime.fromisoformat on the date text of a transaction, evaluated while
\* the arguments of create_expense / create_income are built
StepMayRaise(d, intent, payload) ==
    d = "budget" /\ intent \in TransactionIntents /\ payload > 0

\* the try/except around the whole node body
ExecuteOutcome(d, intent, payload, sf, matches, stepRaises, failAt) ==
    LET plan == RepoPlan(d, intent, payload, sf, matches) IN
    IF stepRaises \/ HandlerTypeError(d, intent, payload)
    THEN [log |-> <<>>, applied |-> <<>>, sf |-> sf, opResult |-> ErrorMarker]
    ELSE IF failAt \in 1..Len(plan)
    THEN [log |-> SubSeq(plan, 1, failAt),
          applied |-> SubSeq(plan, 1, failAt - 1),
          sf |-> ApplyCalls(sf, SubSeq(plan, 1, failAt - 1)),
          opResult |-> ErrorMarker]
    ELSE [log |-> plan, applied |-> plan, sf |-> ApplyCalls(sf, plan),
          opResult |-> OpResult(d, intent, payload, sf, matches)]

\* variant: items are added to the first active list of the table, whichever
\* family owns it
CallFamily_UnfilteredList(m, f) == IF m = "add_item" THEN "famA" ELSE f

\* the family whose entities a repository call made by a run for family f
\* addresses: every call is given family_id = f or the id of a budget, a
\* goal or a list that was fetched for f
CallFamily(m, f) == f

\* the completed calls of a run for family f, applied to the stored entities
RECURSIVE ApplyScoped(_, _, _)
ApplyScoped(st, calls, f) ==
    IF calls = <<>>
    THEN st
    ELSE ApplyScoped([st EXCEPT ![CallFamily(Head(calls), f)] = ApplyCall(@, Head(calls))],
                     Tail(calls), f)

PipeExecute ==
    /\ pc = "pipeline"
    /\ ps.node \in ActionNodes
    /\ \E matches \in 0..MaxPayload, stepRaises \in BOOLEAN, failAt \in 0..(MaxPayload + 3) :
         /\ stepRaises => StepMayRaise(ps.domain, ps.intent, ps.payload)
         \* the default BudgetData has no name and no income plan
         /\ ("extract" \in llmFailed /\ ps.intent = "update_budget") => matches = 0
         /\ LET o == ExecuteOutcome(ps.domain, ps.intent, ps.payload, store[msg.family],
                                    matches, stepRaises, failAt)
            IN /\ repoLog' = repoLog \o o.log
               /\ store' = ApplyScoped(store, o.applied, msg.family)
               /\ ps' = [ps EXCEPT !.opResult = o.opResult, !.node = Edge(ps.domain, ps.node)]
    /\ trace' = Append(trace, ps.node)
    /\ UNCHANGED <<pc, msg, cls, result, invoked, generalWhy, taskCls, classifyCalls, msgCount, llmFailed>>
    /\ UNCHANGED offRouter

(***************************************************************************)
(* GENERATE_RESPONSE node.                                                 *)
(***************************************************************************)
GenerateOutcomes == {"text", "llm_error", "format_error"}

\* variant: the node's except branch does not set a response
GeneratedResponse_NoFallback(outcome) ==
    CASE outcome = "text" -> "llm_text"
      [] outcome = "llm_error" -> "llm_service_apology"
      [] OTHER -> NoneValue

GeneratedResponse(outcome) ==
    CASE outcome = "text" -> "llm_text"
      [] outcome = "llm_error" -> "llm_service_apology"
      [] OTHER -> "node_apology"

PipeGenerateResponse ==
    /\ pc = "pipeline"
    /\ ps.node = "generate_response"
    /\ \E outcome \in GenerateOutcomes :
         /\ ps' = [ps EXCEPT !.hasResponse = TRUE, !.response = GeneratedResponse(outcome),
                             !.node = Edge(ps.domain, ps.node)]
         /\ llmFailed' = IF outcome = "text" THEN llmFailed ELSE llmFailed \cup {"generate"}
    /\ trace' = Append(trace, "generate_response")
    /\ UNCHANGED <<pc, msg, cls, result, invoked, generalWhy, taskCls, repoLog, classifyCalls, store, msgCount>>
    /\ UNCHANGED offRouter

(***************************************************************************)
(* END: graph.ainvoke returns, process_message builds its result and the   *)
(* router checks it.                                                       *)
(***************************************************************************)
PipelineResult(st) ==
    IF ~st.hasResponse
    THEN Dict(TRUE, NoneValue, AbsentKey, st.intent, st.conf)
    ELSE Dict(TRUE, st.response, AbsentKey, st.intent, NoConfidence)

PipeFinish ==
    /\ pc = "pipeline"
    /\ ps.node = "end"
    /\ ps' = [ps EXCEPT !.node = "done"]
    /\ trace' = Append(trace, "end")
    /\ AfterDomainHandler(PipelineResult(ps))
    /\ UNCHANGED <<msg, cls, invoked, taskCls, repoLog, classifyCalls, store, msgCount, llmFailed>>
    /\ UNCHANGED offRouter

(***************************************************************************)
(* route_message returns (or raises) to the transport layer.               *)
(***************************************************************************)
Return ==
    /\ pc \in {"done", "raised"}
    /\ pc' = "idle"
    /\ msg' = NoMsg
    /\ cls' = NoClassification
    /\ result' = NoneResult
    /\ invoked' = {}
    /\ generalWhy' = "none"
    /\ taskCls' = NoTaskCls
    /\ ps' = IdlePs
    /\ trace' = <<>>
    /\ repoLog' = <<>>
    /\ classifyCalls' = 0
    /\ llmFailed' = {}
    /\ msgCount' = msgCount + 1
    /\ UNCHANGED store
    /\ UNCHANGED offRouter

Next ==
    \/ RouteMessage
    \/ ClassifyDomain
    \/ GeneralProcess
    \/ TaskProcess
    \/ PipeStart
    \/ PipeClassifyIntent
    \/ PipeExtract
    \/ PipeExecute
    \/ PipeGenerateResponse
    \/ PipeFinish
    \/ Return

Spec == Init /\ [][Next]_vars

\* every awaited LLM or repository call of a running graph returns or raises
PipeStep ==
    \/ PipeStart
    \/ PipeClassifyIntent
    \/ PipeExtract
    \/ PipeExecute
    \/ PipeGenerateResponse
    \/ PipeFinish

FairSpec == Spec /\ WF_vars(PipeStep)

(***************************************************************************)
(* Properties.                                                             *)
(***************************************************************************)
FamilyGiven == msg.family \in Families

Classified == classifyCalls > 0 /\ cls.numeric

PipelineRan == ps.domain \in {"budget", "shopping"} /\ ps.node \notin {"none", "start", "classify_intent"}

PipelineOffDomain == ps.intent = "other" \/ ps.conf < 6

TaskOffDomain == taskCls.intent = "other" \/ taskCls.confidence < 6

GeneralResponses == {"general_text", GeneralApology}

\* C1: when the router dispatched (confidence >= 0.6) to the task, shopping
\* or budget handler and that handler found the message off-domain (intent
\* "other" or its own confidence < 0.6), the general handler is invoked and
\* the returned reply carries the general handler's non-null response.
C1_FallbackAfterNotApplicable ==
    (/\ pc = "done"
     /\ FamilyGiven
     /\ cls.confidence >= 6
     /\ cls.domain \in {"task_management", "shopping", "budget"}
     /\ \/ (ps.node = "done" /\ PipelineOffDomain)
        \/ ("task" \in invoked /\ TaskOffDomain))
    => ("general" \in invoked /\ result.response \in GeneralResponses)

\* C2: with a family, a router confidence below 0.6 gives a reply produced by
\* the general handler, and no domain pipeline runs and no repository is
\* called, whatever the domain label.
C2_LowConfidenceGeneral ==
    (FamilyGiven /\ Classified /\ cls.confidence < 6)
    => /\ pc \in {"general", "done"}
       /\ invoked \subseteq {"general"}
       /\ ps = IdlePs
       /\ repoLog = <<>>
       /\ pc = "done" => (invoked = {"general"} /\ result.response \in GeneralResponses)

C2_Witness ==
    /\ pc = "done"
    /\ FamilyGiven
    /\ cls.domain = "budget"
    /\ cls.confidence = 4
    /\ invoked = {"general"}

\* C3: with a family, the returned reply's domain and confidence are the
\* router's own classification on every path, overriding what the handler
\* put in its result.
C3_ReplyCarriesClassification ==
    (pc = "done" /\ FamilyGiven)
    => (result.domain = cls.domain /\ result.confidence = cls.confidence)

C3_Witness ==
    /\ pc = "done"
    /\ FamilyGiven
    /\ cls.domain = "budget"
    /\ cls.confidence = 4
    /\ result.response = "general_text"
    /\ result.intent = "general_conversation"
    /\ result.domain = "budget"
    /\ result.confidence = 4

\* C4: route_message never raises to its caller.
C4_NeverRaises == pc # "raised"

\* C5: without a family (None or empty) the general handler is called
\* directly: no domain classification call, no domain pipeline, no
\* repository call.
C5_NoFamilyDirectGeneral ==
    (pc # "idle" /\ msg.family \in {NoFamily, ""})
    => /\ pc \in {"general", "done"}
       /\ classifyCalls = 0
       /\ invoked \subseteq {"general"}
       /\ ps = IdlePs
       /\ repoLog = <<>>
       /\ pc = "done" => (invoked = {"general"} /\ result.response \in GeneralResponses)

C5_Witness ==
    /\ pc = "done"
    /\ msg.family = ""
    /\ invoked = {"general"}
    /\ classifyCalls = 0

\* C6: one route_message call invokes at most one of the task, shopping and
\* budget handlers, and only the one the router's classification names.
C6_SinglePipeline ==
    /\ Cardinality(invoked \cap {"task", "shopping", "budget"}) <= 1
    /\ "task" \in invoked => cls.domain = "task_management"
    /\ "shopping" \in invoked => cls.domain = "shopping"
    /\ "budget" \in invoked => cls.domain = "budget"
    /\ ps.domain \in {"shopping", "budget"} => cls.domain = ps.domain

C6_Witness ==
    /\ pc = "done"
    /\ invoked = {"shopping"}
    /\ cls.domain = "shopping"
    /\ ps.node = "done"

IsPrefix(s, t) == Len(s) <= Len(t) /\ SubSeq(t, 1, Len(s)) = s

AllowedRuns(d) ==
    IF d = "budget"
    THEN {<<"start", "classify_intent", "end">>,
          <<"start", "classify_intent", "process_budget_action", "generate_response", "end">>}
         \cup {<<"start", "classify_intent", x, "process_budget_action", "generate_response", "end">> :
                 x \in {"extract_transaction", "extract_budget_data", "extract_goal_data"}}
    ELSE {<<"start", "classify_intent", "end">>,
          <<"start", "classify_intent", "process_shopping_action", "generate_response", "end">>,
          <<"start", "classify_intent", "extract_items", "process_shopping_action",
            "generate_response", "end">>}

TraceInOrder ==
    ps.domain \in {"budget", "shopping"}
    => /\ \E run \in AllowedRuns(ps.domain) : IsPrefix(trace, run)
       /\ ps.node = "done" <=> (trace # <<>> /\ trace[Len(trace)] = "end")

\* C7: a pipeline run visits START, CLASSIFY_INTENT, at most one EXTRACT
\* state, EXECUTE_ACTION, GENERATE_RESPONSE, END in this order, no state
\* twice, and every run eventually reaches END.
C7_PipelineOrder ==
    /\ []TraceInOrder
    /\ (pc = "pipeline") ~> (ps.node = "done")

C7_Witness ==
    /\ ps.node = "done"
    /\ trace = <<"start", "classify_intent", "extract_items", "process_shopping_action",
                 "generate_response", "end">>

\* C8: when the classified intent is "other" or its confidence is below 0.6
\* the run goes from CLASSIFY_INTENT to END: no EXTRACT, EXECUTE_ACTION or
\* GENERATE_RESPONSE, no repository call, no response.
C8_OffDomainEndsAtOnce ==
    (PipelineRan /\ PipelineOffDomain)
    => /\ ps.node \in {"end", "done"}
       /\ IsPrefix(trace, <<"start", "classify_intent", "end">>)
       /\ repoLog = <<>>
       /\ ps.opResult = AbsentKey
       /\ ~ps.hasResponse
       /\ ps.node = "done" => result.response = NoneValue

C8_Witness ==
    /\ ps.node = "done"
    /\ ps.domain = "budget"
    /\ ps.intent = "other"
    /\ ps.conf = 6
    /\ trace = <<"start", "classify_intent", "end">>

RequiresFields(d) ==
    IF d = "budget"
    THEN {"add_expense", "add_income", "create_budget", "update_budget", "create_goal", "update_goal"}
    ELSE {"add_item", "mark_purchased", "remove_item", "change_priority"}

MatchingExtract(d, intent) ==
    IF d = "shopping" THEN "extract_items"
    ELSE IF intent \in {"add_expense", "add_income"} THEN "extract_transaction"
    ELSE IF intent \in {"create_budget", "update_budget"} THEN "extract_budget_data"
    ELSE "extract_goal_data"

\* the state entered right after CLASSIFY_INTENT
AfterClassifyState == IF Len(trace) >= 3 THEN trace[3] ELSE ps.node

\* C9: an EXTRACT state is entered exactly when the intent is applicable,
\* needs structured fields and they are absent after CLASSIFY_INTENT; it is
\* the EXTRACT state of that intent; every other applicable run goes to
\* EXECUTE_ACTION directly.
C9_ExtractIffMissing ==
    PipelineRan
    => LET needs == /\ ~PipelineOffDomain
                    /\ ps.intent \in RequiresFields(ps.domain)
                    /\ ~ps.classData
       IN /\ needs => AfterClassifyState = MatchingExtract(ps.domain, ps.intent)
          /\ (~PipelineOffDomain /\ ~needs) => AfterClassifyState \in ActionNodes
          /\ (\E i \in 1..Len(trace) : trace[i] \in ExtractNodes) => needs

C9_Witness ==
    /\ ps.node = "done"
    /\ ps.domain = "shopping"
    /\ ps.intent = "mark_purchased"
    /\ ~ps.classData
    /\ trace[3] = "extract_items"

\* C10: when a repository call or another step of EXECUTE_ACTION raises, the
\* run does not raise: operation_result is the error marker,
\* GENERATE_RESPONSE runs and process_message returns a response.
C10_ExecuteFailureStillResponds ==
    (ps.opResult = ErrorMarker)
    => /\ pc \in {"pipeline", "done"}
       /\ ps.node \in {"generate_response", "end", "done"}
       /\ ps.node \in {"end", "done"}
            => /\ trace[Len(trace) - (IF ps.node = "done" THEN 1 ELSE 0)] = "generate_response"
               /\ ps.response \in {"llm_text", "llm_service_apology", "node_apology"}
       /\ ps.node = "done"
            => /\ pc = "done"
               /\ result.hasResponse
               /\ result.response = ps.response

C10_Witness ==
    /\ ps.node = "done"
    /\ ps.opResult = ErrorMarker
    /\ repoLog = <<"create_expense", "get_current_budget">>
    /\ result.response = "llm_text"

(***************************************************************************)
(* Repository methods that write, and the intents of the two pipelines.    *)
(***************************************************************************)
MutatingMethods ==
    {"create_expense", "create_income", "add_transaction_to_budget", "create_monthly_budget",
     "update_budget", "update_category_limit", "create_goal", "update_goal",
     "create_list", "add_item", "mark_item_as_purchased", "remove_item", "update_item"}

MutatingIntents ==
    {"add_expense", "add_income", "create_budget", "update_budget", "create_goal", "update_goal",
     "create_list", "add_item", "mark_purchased", "remove_item", "clear_list", "change_priority"}

ReadOnlyIntents == {"view_budget", "view_transactions", "view_goals", "view_reports", "view_list"}

\* the writing methods the handler of an intent contains
HandlerMutators(intent) ==
    CASE intent = "add_expense" -> {"create_expense", "add_transaction_to_budget"}
      [] intent = "add_income" -> {"create_income", "add_transaction_to_budget"}
      [] intent = "create_budget" -> {"create_monthly_budget"}
      [] intent = "update_budget" -> {"update_budget", "update_category_limit"}
      [] intent = "create_goal" -> {"create_goal"}
      [] intent = "update_goal" -> {"update_goal"}
      [] intent = "create_list" -> {"create_list"}
      [] intent = "add_item" -> {"create_list", "add_item"}
      [] intent = "mark_purchased" -> {"mark_item_as_purchased"}
      [] intent \in {"remove_item", "clear_list"} -> {"remove_item"}
      [] intent = "change_priority" -> {"update_item"}
      [] OTHER -> {}

Mutations(log) == {i \in 1..Len(log) : log[i] \in MutatingMethods}

\* EXECUTE_ACTION has run in the current pipeline run
Executed == \E i \in 1..Len(trace) : trace[i] \in ActionNodes

\* C11 (as stated): every execution of EXECUTE_ACTION invokes at most one
\* state-mutating repository method: exactly one for a mutating intent, zero
\* for a read-only intent.
C11_AtMostOneMutation ==
    Executed
    => /\ Cardinality(Mutations(repoLog)) <= 1
       /\ ps.intent \in MutatingIntents => Cardinality(Mutations(repoLog)) = 1
       /\ ps.intent \in ReadOnlyIntents => Cardinality(Mutations(repoLog)) = 0

\* C11 (amended): a read-only intent invokes no state-mutating repository
\* method; any other intent invokes only the mutating methods of its own
\* handler, zero or more times.
C11_OnlyOwnMutations ==
    Executed
    => /\ ps.intent \in ReadOnlyIntents => Mutations(repoLog) = {}
       /\ \A i \in Mutations(repoLog) : repoLog[i] \in HandlerMutators(ps.intent)

C11_Witness ==
    /\ ps.node = "done"
    /\ ps.intent = "add_expense"
    /\ ps.opResult = OpSuccess
    /\ repoLog = <<"create_expense", "get_current_budget", "add_transaction_to_budget">>

\* the validation message each amount-carrying intent sets
ValidationMessage(intent) ==
    CASE intent = "add_expense" -> "ne udalos opredelit summu raskhoda"
      [] intent = "add_income" -> "ne udalos opredelit summu dokhoda"
      [] OTHER -> "ne udalos opredelit tselevuyu summu"

AmountIntents == {"add_expense", "add_income", "create_goal"}

\* C12: when add_expense, add_income or create_goal reaches EXECUTE_ACTION
\* with an amount that is missing (None), zero or negative, nothing is
\* written, operation_result is the intent's own validation message (not the
\* generic error marker) and the run goes on to GENERATE_RESPONSE and END.
C12_InvalidAmountValidationMessage ==
    (Executed /\ ps.domain = "budget" /\ ps.intent \in AmountIntents /\ ps.payload <= 0)
    => /\ Mutations(repoLog) = {}
       /\ ps.opResult = ValidationMessage(ps.intent)
       /\ ps.opResult # ErrorMarker
       /\ ps.node \in {"generate_response", "end", "done"}

\* the classification step raised before it returned (pc = "raised" with the
\* LLM answer never received)
ClassificationRaised == pc = "raised" /\ classifyCalls = 0

Apologies == {"llm_service_apology", "node_apology"}

\* C13: no LLM-backed step raises to its caller; when the LLM call fails or
\* its answer does not fit the target schema, the router's classification is
\* (general, 0.3), a pipeline's classification is ("other", 0.5), an
\* extraction is the zero / empty record and a generated response is a
\* static apology.
C13_LLMStepsFallBack ==
    /\ ~ClassificationRaised
    /\ "router" \in llmFailed => cls = RouterDefault
    /\ "intent" \in llmFailed => (ps.intent = "other" /\ ps.conf = PipelineDefaultConfidence)
    /\ "extract" \in llmFailed => ps.payload = 0
    /\ "generate" \in llmFailed => ps.response \in Apologies

\* the domains the router's prompt lists
AllowedDomains == {"task_management", "shopping", "budget", "family", "general"}

Vocabulary(d) == IF d = "budget" THEN BudgetIntents ELSE ShoppingIntents

\* C14: a classifier answer with a value outside its allowed set (router: a
\* domain outside the five listed, a confidence outside [0, 1]; pipeline: an
\* intent outside the vocabulary) is rejected for the default record: the
\* value is neither dispatched on nor reported in the reply.
C14_OutOfSetRejected ==
    /\ Classified => (cls.domain \in AllowedDomains /\ cls.confidence \in 0..10)
    /\ (pc = "done" /\ FamilyGiven)
         => (result.domain \in AllowedDomains /\ result.confidence \in 0..10)
    /\ ps.domain \in {"budget", "shopping"} /\ ps.intent # AbsentKey
         => ps.intent \in Vocabulary(ps.domain)
    /\ pc = "done" => result.intent # OutOfVocabulary

(***************************************************************************)
(* The budget ledger: one Budget with its CategoryBudgets, changed through *)
(* the methods of the Budget model and of the relational BudgetRepository. *)
(* Amounts are whole roubles; instants are numbered so that the budget     *)
(* period is PeriodStart..PeriodEnd with one instant before and one after. *)
(***************************************************************************)
MaxLedgerOps == 2

PeriodStart == 1

PeriodEnd == 3

Dates == (PeriodStart - 1)..(PeriodEnd + 1)

LedgerFamilies == {"fam1", "fam2"}

ExpenseCategories == {"food", "transport"}

NegativeLimit == 0 - 100

\* limits a caller or the budget-data extractor may supply
LimitInputs == {NegativeLimit, 0, 3000, 10000}

\* Transaction.validate_amount admits only positive amounts
TxAmounts == {1500, 2000}

Transactions ==
    [date : Dates, family : LedgerFamilies, type : {"expense"},
     category : ExpenseCategories, amount : TxAmounts]
    \cup
    [date : Dates, family : LedgerFamilies, type : {"income"},
     category : {"income"}, amount : TxAmounts]

NoTx == [date |-> 0, family |-> "none", type |-> "none", category |-> "none", amount |-> 0]

CategoryBudget(limit, spent) == [limit |-> limit, spent |-> spent]

\* dict assignment d[k] = v
Put(d, k, v) == [x \in DOMAIN d \cup {k} |-> IF x = k THEN v ELSE d[x]]

\* CategoryBudget.get_remaining
get_remaining(cb) ==
    IF cb.limit - cb.spent > 0 THEN cb.limit - cb.spent ELSE 0

\* CategoryBudget.is_exceeded
is_exceeded(cb) == cb.spent > cb.limit

\* a fraction n/d with d > 0
Fraction(n, d) == IF d < 0 THEN [n |-> 0 - n, d |-> 0 - d] ELSE [n |-> n, d |-> d]

RECURSIVE GCD(_, _)
GCD(a, b) == IF b = 0 THEN a ELSE GCD(b, a % b)

\* a fraction in lowest terms
Reduce(f) ==
    LET g == GCD(IF f.n < 0 THEN 0 - f.n ELSE f.n, f.d)
    IN [n |-> f.n \div g, d |-> f.d \div g]

\* a <= b, compared in lowest terms
FractionLeq(a, b) == Reduce(a).n * Reduce(b).d <= Reduce(b).n * Reduce(a).d

FractionMin(a, b) == IF FractionLeq(a, b) THEN a ELSE b

\* CategoryBudget.get_progress_percentage, as an exact fraction
get_progress_percentage(cb) ==
    IF cb.limit = 0
    THEN IF cb.spent > 0 THEN Fraction(100, 1) ELSE Fraction(0, 1)
    ELSE FractionMin(Fraction(100, 1), Fraction(cb.spent * 100, cb.limit))

\* CategoryBudget.add_expense
CategoryBudget_add_expense(cb, amount) == [cb EXCEPT !.spent = @ + amount]

\* Budget.add_category_budget
add_category_budget(b, category, limit) ==
    [b EXCEPT !.cats = Put(b.cats, category, CategoryBudget(limit, 0))]

\* Budget.update_category_limit
update_category_limit(b, category, limit) ==
    IF category \notin DOMAIN b.cats
    THEN [ok |-> FALSE, budget |-> b]
    ELSE [ok |-> TRUE, budget |-> [b EXCEPT !.cats[category].limit = limit]]

\* variant: income is also booked as spending of the transaction's category
add_income_AlsoSpent(b, amount) ==
    [b EXCEPT !.incomeActual = @ + amount,
              !.cats = Put(b.cats, "income", CategoryBudget(0, amount))]

\* Budget.add_income
add_income(b, amount) == [b EXCEPT !.incomeActual = @ + amount]

\* variant: a category created by an expense gets the amount as its limit
add_expense_LimitFromAmount(b, category, amount) ==
    LET b1 == IF category \notin DOMAIN b.cats
              THEN add_category_budget(b, category, amount)
              ELSE b
    IN [b1 EXCEPT !.cats[category] = CategoryBudget_add_expense(@, amount)]

\* Budget.add_expense
add_expense(b, category, amount) ==
    LET b1 == IF category \notin DOMAIN b.cats
              THEN add_category_budget(b, category, 0)
              ELSE b
    IN [b1 EXCEPT !.cats[category] = CategoryBudget_add_expense(@, amount)]

\* variant: the period bounds themselves are outside the period
OutsideBudget_Exclusive(b, tx) ==
    \/ tx.date <= b.pstart \/ tx.date >= b.pend
    \/ tx.family # b.family

\* the two rejections shared by Budget.process_transaction and
\* BudgetRepository.add_transaction_to_budget
OutsideBudget(b, tx) ==
    \/ tx.date < b.pstart \/ tx.date > b.pend
    \/ tx.family # b.family

\* Budget.process_transaction
process_transaction(b, tx) ==
    IF OutsideBudget(b, tx)
    THEN [ok |-> FALSE, budget |-> b]
    ELSE IF tx.type = "income"
    THEN [ok |-> TRUE, budget |-> add_income(b, tx.amount)]
    ELSE [ok |-> TRUE, budget |-> add_expense(b, tx.category, tx.amount)]

\* BudgetRepository.add_transaction_to_budget for a stored budget
Repo_add_transaction_to_budget(b, tx) ==
    IF OutsideBudget(b, tx)
    THEN [ok |-> FALSE, budget |-> b]
    ELSE IF tx.type = "income"
    THEN [ok |-> TRUE, budget |-> [b EXCEPT !.incomeActual = @ + tx.amount]]
    ELSE IF tx.category \notin DOMAIN b.cats
    THEN [ok |-> TRUE,
          budget |-> [b EXCEPT !.cats = Put(b.cats, tx.category, CategoryBudget(0, tx.amount))]]
    ELSE [ok |-> TRUE, budget |-> [b EXCEPT !.cats[tx.category].spent = @ + tx.amount]]

\* BudgetRepository.update_category_limit for a stored budget
Repo_update_category_limit(b, category, limit) ==
    IF category \in DOMAIN b.cats
    THEN [b EXCEPT !.cats[category].limit = limit]
    ELSE [b EXCEPT !.cats = Put(b.cats, category, CategoryBudget(limit, 0))]

\* category_limits arguments: a limit for each category of some set
CategoryLimits == UNION {[cs -> LimitInputs] : cs \in SUBSET ExpenseCategories}

\* BudgetRepository.create_monthly_budget
Repo_create_monthly_budget(family, incomePlan, limits) ==
    [family |-> family, pstart |-> PeriodStart, pend |-> PeriodEnd,
     incomePlan |-> incomePlan, incomeActual |-> 0,
     cats |-> [c \in DOMAIN limits |-> CategoryBudget(limits[c], 0)]]

\* the loop of the update_budget handler over the extracted category limits
RECURSIVE ApplyCategoryLimits(_, _, _)
ApplyCategoryLimits(b, limits, todo) ==
    IF todo = {}
    THEN b
    ELSE LET c == CHOOSE x \in todo : TRUE
         IN ApplyCategoryLimits(Repo_update_category_limit(b, c, limits[c]), limits, todo \ {c})

OpRecord(op, ok, tx, category, amount) ==
    [op |-> op, ok |-> ok, tx |-> tx, category |-> category, amount |-> amount]

\* what every ledger action leaves behind besides the budget itself
Ledger(op, ok, tx, category, amount, b) ==
    /\ prevBudget' = budget
    /\ budget' = b
    /\ lastOp' = OpRecord(op, ok, tx, category, amount)
    /\ stats' = <<>>

\* a budget created by create_monthly_budget with category limits
LedgerInit ==
    /\ RouterInit
    /\ \E f \in LedgerFamilies, limits \in CategoryLimits :
         budget = Repo_create_monthly_budget(f, 0, limits)
    /\ prevBudget = budget
    /\ lastOp = OpRecord("create_monthly_budget", TRUE, NoTx, "none", 0)
    /\ ledgerOps = 0
    /\ stats = <<>>
    /\ GoalIdle
    /\ StoreIdle
    /\ ShopIdle
    /\ TxIdle
    /\ RaceIdle
    /\ BookIdle

AddCategoryBudget ==
    /\ ledgerOps < MaxLedgerOps
    /\ \E c \in ExpenseCategories, l \in LimitInputs :
         Ledger("add_category_budget", TRUE, NoTx, c, l, add_category_budget(budget, c, l))
    /\ ledgerOps' = ledgerOps + 1
    /\ UNCHANGED offLedger

UpdateCategoryLimit ==
    /\ ledgerOps < MaxLedgerOps
    /\ \E c \in ExpenseCategories, l \in LimitInputs :
         LET r == update_category_limit(budget, c, l)
         IN Ledger("update_category_limit", r.ok, NoTx, c, l, r.budget)
    /\ ledgerOps' = ledgerOps + 1
    /\ UNCHANGED offLedger

AddIncome ==
    /\ ledgerOps < MaxLedgerOps
    /\ \E a \in TxAmounts :
         Ledger("add_income", TRUE, NoTx, "none", a, add_income(budget, a))
    /\ ledgerOps' = ledgerOps + 1
    /\ UNCHANGED offLedger

AddExpense ==
    /\ ledgerOps < MaxLedgerOps
    /\ \E c \in ExpenseCategories, a \in TxAmounts :
         Ledger("add_expense", TRUE, NoTx, c, a, add_expense(budget, c, a))
    /\ ledgerOps' = ledgerOps + 1
    /\ UNCHANGED offLedger

ProcessTransaction ==
    /\ ledgerOps < MaxLedgerOps
    /\ \E tx \in Transactions :
         LET r == process_transaction(budget, tx)
         IN Ledger("process_transaction", r.ok, tx, tx.category, tx.amount, r.budget)
    /\ ledgerOps' = ledgerOps + 1
    /\ UNCHANGED offLedger

RepoAddTransactionToBudget ==
    /\ ledgerOps < MaxLedgerOps
    /\ \E tx \in Transactions :
         LET r == Repo_add_transaction_to_budget(budget, tx)
         IN Ledger("add_transaction_to_budget", r.ok, tx, tx.category, tx.amount, r.budget)
    /\ ledgerOps' = ledgerOps + 1
    /\ UNCHANGED offLedger

\* the update_budget pipeline action with the extracted category limits
UpdateBudgetLimits ==
    /\ ledgerOps < MaxLedgerOps
    /\ \E limits \in CategoryLimits :
         /\ DOMAIN limits # {}
         /\ Ledger("update_budget", TRUE, NoTx, "none", 0,
                   ApplyCategoryLimits(budget, limits, DOMAIN limits))
    /\ ledgerOps' = ledgerOps + 1
    /\ UNCHANGED offLedger

\* one entry of the list get_category_stats builds
CategoryStat(category, cb) ==
    [category |-> category, limit |-> cb.limit, spent |-> cb.spent,
     remaining |-> get_remaining(cb), progress |-> get_progress_percentage(cb),
     is_exceeded |-> is_exceeded(cb)]

\* the orders in which a dict with the given keys may be iterated (its
\* insertion order)
DictOrders(keys) ==
    {o \in [1..Cardinality(keys) -> keys] : \A i, j \in DOMAIN o : i # j => o[i] # o[j]}

\* the place of a new entry in a list sorted by progress, largest first:
\* behind every entry whose progress is not smaller (the sort is stable)
InsertByProgress(st, sorted) ==
    LET k == Cardinality({i \in 1..Len(sorted) : FractionLeq(st.progress, sorted[i].progress)})
    IN SubSeq(sorted, 1, k) \o <<st>> \o SubSeq(sorted, k + 1, Len(sorted))

\* variant: sorted without reverse=True, smallest progress first
RECURSIVE SortedByProgress_Ascending(_)
SortedByProgress_Ascending(entries) ==
    IF entries = <<>>
    THEN <<>>
    ELSE LET st == entries[Len(entries)]
             sorted == SortedByProgress_Ascending(SubSeq(entries, 1, Len(entries) - 1))
             k == Cardinality({i \in 1..Len(sorted) : FractionLeq(sorted[i].progress, st.progress)})
         IN SubSeq(sorted, 1, k) \o <<st>> \o SubSeq(sorted, k + 1, Len(sorted))

\* sorted(stats, key=lambda x: x["progress"], reverse=True)
RECURSIVE SortedByProgress(_)
SortedByProgress(entries) ==
    IF entries = <<>>
    THEN <<>>
    ELSE InsertByProgress(entries[Len(entries)],
                          SortedByProgress(SubSeq(entries, 1, Len(entries) - 1)))

\* Budget.get_category_stats, for a dict iterated in the given order
get_category_stats(b, order) ==
    SortedByProgress([i \in DOMAIN order |-> CategoryStat(order[i], b.cats[order[i]])])

GetCategoryStats ==
    /\ \E order \in DictOrders(DOMAIN budget.cats) :
         stats' = get_category_stats(budget, order)
    /\ lastOp' = OpRecord("get_category_stats", TRUE, NoTx, "none", 0)
    /\ prevBudget' = budget
    /\ UNCHANGED <<budget, ledgerOps>>
    /\ UNCHANGED offLedger

LedgerNext ==
    \/ GetCategoryStats
    \/ AddCategoryBudget
    \/ UpdateCategoryLimit
    \/ AddIncome
    \/ AddExpense
    \/ ProcessTransaction
    \/ RepoAddTransactionToBudget
    \/ UpdateBudgetLimits

LedgerSpec == LedgerInit /\ [][LedgerNext]_vars

(***************************************************************************)
(* Claims about the ledger.                                                *)
(***************************************************************************)
\* BudgetRepository.update_category_limit with the flag it returns for a
\* stored budget
Repo_update_category_limit_result(b, category, limit) ==
    [ok |-> TRUE, budget |-> Repo_update_category_limit(b, category, limit)]

\* C38: the repository's budget mutations refine the ledger model: for every
\* budget state and input, add_transaction_to_budget and process_transaction
\* return the same flag and produce the same income_actual and per-category
\* (limit, spent), and the two update_category_limit return the same flag and
\* produce the same categories and limits, also for a category not yet in
\* the budget.
C38_RepositoryRefinesLedger ==
    /\ \A tx \in Transactions :
         Repo_add_transaction_to_budget(budget, tx) = process_transaction(budget, tx)
    /\ \A c \in ExpenseCategories, l \in LimitInputs :
         Repo_update_category_limit_result(budget, c, l) = update_category_limit(budget, c, l)

\* C31: get_category_stats returns exactly one entry per CategoryBudget of
\* the budget, ordered by progress percentage in non-increasing order, and
\* each entry's remaining and is_exceeded equal that category's
\* get_remaining and is_exceeded values.
C31_CategoryStats ==
    lastOp.op = "get_category_stats" =>
        /\ Len(stats) = Cardinality(DOMAIN budget.cats)
        /\ {stats[i].category : i \in 1..Len(stats)} = DOMAIN budget.cats
        /\ \A i, j \in 1..Len(stats) :
             i < j => FractionLeq(stats[j].progress, stats[i].progress)
        /\ \A i \in 1..Len(stats) :
             LET cb == budget.cats[stats[i].category]
             IN /\ stats[i].remaining = (IF cb.limit > cb.spent THEN cb.limit - cb.spent ELSE 0)
                /\ stats[i].is_exceeded = (cb.spent > cb.limit)

C31_Witness ==
    /\ lastOp.op = "get_category_stats"
    /\ Len(stats) = 2
    /\ ~FractionLeq(stats[1].progress, stats[2].progress)
    /\ stats[1].is_exceeded
    /\ stats[2].remaining > 0

TransactionOps == {"process_transaction", "add_transaction_to_budget"}

\* C15: process_transaction and add_transaction_to_budget return false and
\* leave the budget unchanged when the transaction's date is before the
\* period start or after the period end, or its family is not the budget's;
\* a transaction of the budget's family dated exactly at the period start or
\* the period end is accepted.
C15_RejectsOutsideBudget ==
    lastOp.op \in TransactionOps =>
        LET tx == lastOp.tx
            b == prevBudget
        IN /\ (tx.date < b.pstart \/ tx.date > b.pend \/ tx.family # b.family)
                => (~lastOp.ok /\ budget = prevBudget)
           /\ (tx.date \in {b.pstart, b.pend} /\ tx.family = b.family)
                => lastOp.ok

C15_Witness ==
    /\ lastOp.op = "add_transaction_to_budget"
    /\ lastOp.tx.date = PeriodEnd + 1
    /\ lastOp.tx.family = prevBudget.family
    /\ ~lastOp.ok
    /\ budget = prevBudget
    /\ \E c \in DOMAIN budget.cats : budget.cats[c].spent > 0

\* C16: an accepted income transaction increases income_actual by exactly
\* its amount and changes nothing else: the set of categories, every
\* category's limit and spent, income_plan, the period and the family stay
\* as they were.
C16_IncomeOnlyIncomeActual ==
    (lastOp.op = "process_transaction" /\ lastOp.ok /\ lastOp.tx.type = "income") =>
        /\ budget.incomeActual = prevBudget.incomeActual + lastOp.tx.amount
        /\ DOMAIN budget.cats = DOMAIN prevBudget.cats
        /\ \A c \in DOMAIN prevBudget.cats :
             /\ budget.cats[c].limit = prevBudget.cats[c].limit
             /\ budget.cats[c].spent = prevBudget.cats[c].spent
        /\ budget.incomePlan = prevBudget.incomePlan
        /\ budget.pstart = prevBudget.pstart
        /\ budget.pend = prevBudget.pend
        /\ budget.family = prevBudget.family

C16_Witness ==
    /\ lastOp.op = "process_transaction"
    /\ lastOp.ok
    /\ lastOp.tx.type = "income"
    /\ lastOp.tx.amount = 1500
    /\ prevBudget.incomeActual = 2000
    /\ budget.incomeActual = 3500
    /\ \E c \in DOMAIN budget.cats : budget.cats[c].limit > 0

\* the limit and the spent of a category before a step, an absent category
\* counting as one with limit 0 and spent 0
LimitBefore(c) == IF c \in DOMAIN prevBudget.cats THEN prevBudget.cats[c].limit ELSE 0

SpentBefore(c) == IF c \in DOMAIN prevBudget.cats THEN prevBudget.cats[c].spent ELSE 0

\* C17: an accepted expense transaction increases the spent of its
\* category's CategoryBudget by exactly its amount, the category being
\* created with limit 0 and spent 0 first if it is absent; income_actual and
\* every other category are unchanged.
C17_ExpenseAddsToCategory ==
    (lastOp.op \in TransactionOps /\ lastOp.ok /\ lastOp.tx.type = "expense") =>
        LET c == lastOp.tx.category IN
        /\ DOMAIN budget.cats = DOMAIN prevBudget.cats \cup {c}
        /\ budget.cats[c].spent = SpentBefore(c) + lastOp.tx.amount
        /\ budget.cats[c].limit = LimitBefore(c)
        /\ \A d \in DOMAIN prevBudget.cats \ {c} : budget.cats[d] = prevBudget.cats[d]
        /\ budget.incomeActual = prevBudget.incomeActual

\* FOOD limit 10000, spent 2000, expense 1500: spent 3500, remaining 6500,
\* not exceeded
C17_Witness ==
    /\ lastOp.op = "process_transaction"
    /\ lastOp.ok
    /\ lastOp.tx.type = "expense"
    /\ lastOp.tx.category = "food"
    /\ lastOp.tx.amount = 1500
    /\ "food" \in DOMAIN prevBudget.cats
    /\ prevBudget.cats["food"] = CategoryBudget(10000, 2000)
    /\ budget.cats["food"].spent = 3500
    /\ get_remaining(budget.cats["food"]) = 6500
    /\ ~is_exceeded(budget.cats["food"])

FractionEq(a, b) == a.n * b.d = b.n * a.d

\* C18: for every CategoryBudget, get_remaining = max(0, limit - spent);
\* is_exceeded holds exactly when spent > limit; get_progress_percentage is
\* min(100, spent / limit * 100) when limit is not 0, 100 when limit = 0 and
\* spent > 0, 0 when limit = 0 and spent = 0; and the progress value lies in
\* [0, 100].
C18_CategoryMetrics ==
    \A c \in DOMAIN budget.cats :
        LET cb == budget.cats[c]
            p == get_progress_percentage(cb)
        IN /\ (cb.limit - cb.spent >= 0 => get_remaining(cb) = cb.limit - cb.spent)
           /\ (cb.limit - cb.spent < 0 => get_remaining(cb) = 0)
           /\ (is_exceeded(cb) <=> cb.spent > cb.limit)
           /\ (cb.limit # 0 =>
                 FractionEq(p, FractionMin(Fraction(100, 1), Fraction(cb.spent * 100, cb.limit))))
           /\ (cb.limit = 0 /\ cb.spent > 0 => FractionEq(p, Fraction(100, 1)))
           /\ (cb.limit = 0 /\ cb.spent = 0 => FractionEq(p, Fraction(0, 1)))
           /\ FractionLeq(Fraction(0, 1), p)
           /\ FractionLeq(p, Fraction(100, 1))

\* C19: every CategoryBudget has limit >= 0 and spent >= 0 after any
\* sequence of budget operations.
C19_LimitAndSpentNonNegative ==
    \A c \in DOMAIN budget.cats :
        budget.cats[c].limit >= 0 /\ budget.cats[c].spent >= 0

\* the operations of the Budget object itself
BudgetOps ==
    {"add_category_budget", "update_category_limit", "add_income", "add_expense",
     "process_transaction"}

\* C20: across every step of a Budget's own operations the spent of each
\* category already present does not decrease.
C20_SpentNeverDecreases ==
    lastOp.op \in BudgetOps =>
        \A c \in DOMAIN prevBudget.cats :
            /\ c \in DOMAIN budget.cats
            /\ budget.cats[c].spent >= prevBudget.cats[c].spent

(***************************************************************************)
(* Financial goals: one FinancialGoal, changed through the methods of the  *)
(* model and of the FinancialGoalRepository, and read at some instant by   *)
(* calculate_monthly_contribution. An instant is a calendar day.           *)
(***************************************************************************)
MaxGoalOps == 2

Instants == [y : {2024, 2025}, m : {1, 2, 12}, d : {1, 20}]

\* datetime comparison
InstantBefore(a, b) ==
    \/ a.y < b.y
    \/ a.y = b.y /\ a.m < b.m
    \/ a.y = b.y /\ a.m = b.m /\ a.d < b.d

\* target amounts a caller may pass; the pipeline passes only positive ones
GoalTargetInputs == {0, 1000, 3000}

\* amounts a caller may pass to update_progress and update_goal_progress
ContributionInputs == {0 - 500, 500, 1000, 3000}

\* FinancialGoal.validate_amount on target_amount and current_amount
FinancialGoalValid(g) == g.target >= 0 /\ g.current >= 0

\* FinancialGoal.update_progress
update_progress(g, amount) == [g EXCEPT !.current = @ + amount]

\* FinancialGoal.get_progress_percentage, as an exact fraction
Goal_get_progress_percentage(g) ==
    IF g.target = 0
    THEN Fraction(100, 1)
    ELSE FractionMin(Fraction(100, 1), Fraction(g.current * 100, g.target))

\* FinancialGoal.get_remaining_amount
get_remaining_amount(g) ==
    IF g.target - g.current > 0 THEN g.target - g.current ELSE 0

\* FinancialGoal.is_completed
is_completed(g) == g.current >= g.target

\* variant: the deadline's month counts as a month to pay in
MonthsRemaining_Inclusive(t, deadline) == (deadline.y - t.y) * 12 + deadline.m - t.m + 1

\* the integer month difference of calculate_monthly_contribution
MonthsRemaining(t, deadline) == (deadline.y - t.y) * 12 + deadline.m - t.m

NoContribution == [kind |-> "None", value |-> Fraction(0, 1)]

Contribution(n, d) == [kind |-> "amount", value |-> Fraction(n, d)]

\* variant: a passed deadline asks for nothing
calculate_monthly_contribution_ZeroWhenLate(g, t) ==
    IF g.deadline = NoInstant
    THEN NoContribution
    ELSE IF get_remaining_amount(g) <= 0
    THEN Contribution(0, 1)
    ELSE IF ~InstantBefore(t, g.deadline)
    THEN Contribution(0, 1)
    ELSE IF MonthsRemaining(t, g.deadline) <= 0
    THEN Contribution(get_remaining_amount(g), 1)
    ELSE Contribution(get_remaining_amount(g), MonthsRemaining(t, g.deadline))

\* FinancialGoal.calculate_monthly_contribution read at instant t
calculate_monthly_contribution(g, t) ==
    IF g.deadline = NoInstant
    THEN NoContribution
    ELSE IF get_remaining_amount(g) <= 0
    THEN Contribution(0, 1)
    ELSE IF ~InstantBefore(t, g.deadline)
    THEN Contribution(get_remaining_amount(g), 1)
    ELSE IF MonthsRemaining(t, g.deadline) <= 0
    THEN Contribution(get_remaining_amount(g), 1)
    ELSE Contribution(get_remaining_amount(g), MonthsRemaining(t, g.deadline))

\* FinancialGoalRepository.create_goal
Repo_create_goal(family, target, deadline) ==
    [family |-> family, target |-> target, current |-> 0, deadline |-> deadline]

\* FinancialGoalRepository.update_goal_progress
Repo_update_goal_progress(g, amount) == [g EXCEPT !.current = @ + amount]

\* FinancialGoalRepository.update_goal with the keywords the update_goal
\* handler passes: a positive target_amount and a deadline
Repo_update_goal(g, target, deadline) ==
    [g EXCEPT !.target = IF target > 0 THEN target ELSE @,
              !.deadline = IF deadline # NoInstant THEN deadline ELSE @]

GoalOpRecord(op, amount, res) == [op |-> op, amount |-> amount, result |-> res]

GoalInit ==
    /\ RouterInit
    /\ LedgerIdle
    /\ \E target \in GoalTargetInputs, deadline \in Instants \cup {NoInstant} :
         goal = Repo_create_goal("fam1", target, deadline)
    /\ prevGoal = goal
    /\ goalOp = GoalOpRecord("create_goal", 0, NoContribution)
    /\ goalOps = 0
    /\ now = NoInstant
    /\ StoreIdle
    /\ ShopIdle
    /\ TxIdle
    /\ RaceIdle
    /\ BookIdle

UpdateProgress ==
    /\ goalOps < MaxGoalOps
    /\ \E a \in ContributionInputs :
         /\ goal' = update_progress(goal, a)
         /\ goalOp' = GoalOpRecord("update_progress", a, NoContribution)
    /\ prevGoal' = goal
    /\ goalOps' = goalOps + 1
    /\ UNCHANGED <<now, offGoal>>

RepoUpdateGoalProgress ==
    /\ goalOps < MaxGoalOps
    /\ \E a \in ContributionInputs :
         /\ goal' = Repo_update_goal_progress(goal, a)
         /\ goalOp' = GoalOpRecord("update_goal_progress", a, NoContribution)
    /\ prevGoal' = goal
    /\ goalOps' = goalOps + 1
    /\ UNCHANGED <<now, offGoal>>

\* the update_goal pipeline action on the goal it found
UpdateGoal ==
    /\ goalOps < MaxGoalOps
    /\ ~is_completed(goal)
    /\ FinancialGoalValid(goal)
    /\ \E target \in GoalTargetInputs, deadline \in Instants \cup {NoInstant} :
         /\ goal' = Repo_update_goal(goal, target, deadline)
         /\ goalOp' = GoalOpRecord("update_goal", target, NoContribution)
    /\ prevGoal' = goal
    /\ goalOps' = goalOps + 1
    /\ UNCHANGED <<now, offGoal>>

\* calculate_monthly_contribution called at some instant
CalculateMonthlyContribution ==
    /\ goalOps < MaxGoalOps
    /\ \E t \in Instants :
         /\ now' = t
         /\ goalOp' = GoalOpRecord("calculate_monthly_contribution", 0,
                                   calculate_monthly_contribution(goal, t))
    /\ prevGoal' = goal
    /\ goalOps' = goalOps + 1
    /\ UNCHANGED <<goal, offGoal>>

GoalNext ==
    \/ UpdateProgress
    \/ RepoUpdateGoalProgress
    \/ UpdateGoal
    \/ CalculateMonthlyContribution

GoalSpec == GoalInit /\ [][GoalNext]_vars

(***************************************************************************)
(* Claims about financial goals.                                           *)
(***************************************************************************)
\* C21: for every FinancialGoal reachable through creation, update and
\* update_progress, get_progress_percentage lies in [0, 100] and
\* is_completed holds exactly when current_amount >= target_amount.
C21_GoalProgressInRange ==
    LET p == Goal_get_progress_percentage(goal) IN
    /\ FractionLeq(Fraction(0, 1), p)
    /\ FractionLeq(p, Fraction(100, 1))
    /\ (is_completed(goal) <=> goal.current >= goal.target)

ProgressOps == {"update_progress", "update_goal_progress"}

\* C22: every FinancialGoal has target_amount > 0 and current_amount >= 0,
\* and no update_progress / update_goal_progress step lowers current_amount.
C22_GoalAmounts ==
    /\ goal.target > 0
    /\ goal.current >= 0
    /\ (goalOp.op \in ProgressOps => goal.current >= prevGoal.current)

Calculated == goalOp.op = "calculate_monthly_contribution"

IsAmount(res, n, d) == res.kind = "amount" /\ FractionEq(res.value, Fraction(n, d))

BeforeDeadline ==
    /\ Calculated
    /\ goal.deadline # NoInstant
    /\ get_remaining_amount(goal) > 0
    /\ InstantBefore(now, goal.deadline)

\* C24 as stated: before the deadline with something remaining, the result
\* is the remaining amount divided by the integer month difference, also
\* when now and the deadline are in the same calendar month.
C24_RemainingOverMonthDifference ==
    BeforeDeadline =>
        /\ goalOp.result.kind = "amount"
        /\ goalOp.result.value.n * MonthsRemaining(now, goal.deadline)
             = get_remaining_amount(goal) * goalOp.result.value.d

\* C24 amended: the remaining amount divided by the month difference when
\* that difference is at least 1, and the whole remaining amount when now
\* and the deadline are in the same calendar month.
C24_RemainingOverPositiveMonthDifference ==
    BeforeDeadline =>
        LET months == (goal.deadline.y - now.y) * 12 + goal.deadline.m - now.m IN
        IF months >= 1
        THEN IsAmount(goalOp.result, get_remaining_amount(goal), months)
        ELSE IsAmount(goalOp.result, get_remaining_amount(goal), 1)

C24_Witness ==
    /\ BeforeDeadline
    /\ now = [y |-> 2024, m |-> 12, d |-> 20]
    /\ goal.deadline = [y |-> 2025, m |-> 2, d |-> 1]
    /\ goal.target = 3000
    /\ goal.current = 1000
    /\ IsAmount(goalOp.result, 1000, 1)

(***************************************************************************)
(* The stored budgets: create_monthly_budget of the Budget model and of    *)
(* the BudgetRepository, and the create_budget pipeline action. The table  *)
(* of budgets is a sequence of rows; today is the month datetime.now()     *)
(* falls in.                                                               *)
(***************************************************************************)
MaxBudgets == 2

BudgetYears == {1900, 2000, 2023, 2024}

\* month arguments, 0 and 13 being outside the calendar
MonthInputs == {0, 2, 4, 13}

Todays == {[y |-> 2024, m |-> 2], [y |-> 2023, m |-> 12]}

DateTime(y, m, d, h, mi, sec) == [y |-> y, m |-> m, d |-> d, h |-> h, mi |-> mi, s |-> sec]

\* calendar.isleap
isleap(year) == year % 4 = 0 /\ (year % 100 # 0 \/ year % 400 = 0)

\* calendar.mdays
mdays == <<31, 28, 31, 30, 31, 30, 31, 31, 30, 31, 30, 31>>

\* calendar.monthrange(year, month)[1]
days_in_month(year, month) ==
    mdays[month] + (IF month = 2 /\ isleap(year) THEN 1 ELSE 0)

\* the month check of create_monthly_budget
MonthRejected(month) == month < 1 \/ month > 12

\* variant: the period ends at the first instant of the last day
MonthlyBudget_EndsAtMidnight(family, year, month) ==
    [family |-> family,
     pstart |-> DateTime(year, month, 1, 0, 0, 0),
     pend |-> DateTime(year, month, days_in_month(year, month), 0, 0, 0),
     incomeActual |-> 0]

\* the budget both create_monthly_budget methods build
MonthlyBudget(family, year, month) ==
    [family |-> family,
     pstart |-> DateTime(year, month, 1, 0, 0, 0),
     pend |-> DateTime(year, month, days_in_month(year, month), 23, 59, 59),
     incomeActual |-> 0]

\* the month the create_budget handler derives from the extracted period
PeriodInputs == {"tekushchiy mesyats", "sleduyushchiy mesyats", "fevral"}

MonthByName(period) ==
    CASE period = "fevral" -> 2
      [] OTHER -> 4

HandlerMonth(period, t) ==
    CASE period = "tekushchiy mesyats" -> [y |-> t.y, m |-> t.m]
      [] period = "sleduyushchiy mesyats" ->
            IF t.m = 12 THEN [y |-> t.y + 1, m |-> 1] ELSE [y |-> t.y, m |-> t.m + 1]
      [] OTHER -> [y |-> t.y, m |-> MonthByName(period)]

BudgetCall(op, family, year, month, ok, created) ==
    [op |-> op, family |-> family, year |-> year, month |-> month, ok |-> ok,
     created |-> created]

StoreInit ==
    /\ RouterInit
    /\ LedgerIdle
    /\ GoalIdle
    /\ budgets = <<>>
    /\ prevBudgets = <<>>
    /\ storeOp = NoBudgetCall
    /\ today \in Todays
    /\ ShopIdle
    /\ TxIdle
    /\ RaceIdle
    /\ BookIdle

\* Budget.create_monthly_budget: builds a Budget object, stores nothing
ModelCreateMonthlyBudget ==
    /\ \E y \in BudgetYears, m \in MonthInputs :
         storeOp' = IF MonthRejected(m)
                    THEN BudgetCall("Budget.create_monthly_budget", "fam1", y, m, FALSE, NoBudget)
                    ELSE BudgetCall("Budget.create_monthly_budget", "fam1", y, m, TRUE,
                                    MonthlyBudget("fam1", y, m))
    /\ prevBudgets' = budgets
    /\ UNCHANGED <<budgets, today, offStore>>

\* BudgetRepository.create_monthly_budget
RepoCreateMonthlyBudget ==
    /\ Len(budgets) < MaxBudgets
    /\ \E f \in LedgerFamilies, y \in BudgetYears, m \in MonthInputs :
         IF MonthRejected(m)
         THEN /\ storeOp' = BudgetCall("create_monthly_budget", f, y, m, FALSE, NoBudget)
              /\ budgets' = budgets
         ELSE /\ storeOp' = BudgetCall("create_monthly_budget", f, y, m, TRUE,
                                       MonthlyBudget(f, y, m))
              /\ budgets' = Append(budgets, MonthlyBudget(f, y, m))
    /\ prevBudgets' = budgets
    /\ UNCHANGED <<today, offStore>>

\* the create_budget pipeline action
CreateBudgetAction ==
    /\ Len(budgets) < MaxBudgets
    /\ \E f \in LedgerFamilies, period \in PeriodInputs :
         LET ym == HandlerMonth(period, today) IN
         /\ storeOp' = BudgetCall("create_budget", f, ym.y, ym.m, TRUE,
                                  MonthlyBudget(f, ym.y, ym.m))
         /\ budgets' = Append(budgets, MonthlyBudget(f, ym.y, ym.m))
    /\ prevBudgets' = budgets
    /\ UNCHANGED <<today, offStore>>

StoreNext ==
    \/ ModelCreateMonthlyBudget
    \/ RepoCreateMonthlyBudget
    \/ CreateBudgetAction

StoreSpec == StoreInit /\ [][StoreNext]_vars

\* the rows get_current_budget's filter matches for a family
CurrentBudgets(f) ==
    {i \in 1..Len(budgets) :
        /\ budgets[i].family = f
        /\ budgets[i].pstart.y = today.y
        /\ budgets[i].pstart.m = today.m}

(***************************************************************************)
(* Claims about budget creation.                                           *)
(***************************************************************************)
CreateOps == {"Budget.create_monthly_budget", "create_monthly_budget", "create_budget"}

\* the last day of a month of the years considered, by the calendar
LeapYearsConsidered == {2000, 2024}

LastDay(year, month) ==
    IF month = 2
    THEN IF year \in LeapYearsConsidered THEN 29 ELSE 28
    ELSE IF month \in {4, 6, 9, 11} THEN 30 ELSE 31

\* C25: create_monthly_budget for a month in 1..12 yields a budget whose
\* period starts on day 1 of the month at 00:00:00 and ends on the last
\* calendar day of the month at 23:59:59 (Gregorian leap years), with
\* income_actual = 0; for a month outside 1..12 it is rejected and no budget
\* is created or stored.
C25_MonthlyPeriod ==
    storeOp.op \in CreateOps =>
        IF storeOp.month \in 1..12
        THEN /\ storeOp.ok
             /\ storeOp.created.pstart = DateTime(storeOp.year, storeOp.month, 1, 0, 0, 0)
             /\ storeOp.created.pend =
                  DateTime(storeOp.year, storeOp.month,
                           LastDay(storeOp.year, storeOp.month), 23, 59, 59)
             /\ storeOp.created.incomeActual = 0
             /\ (storeOp.op # "Budget.create_monthly_budget"
                   => budgets = Append(prevBudgets, storeOp.created))
        ELSE /\ ~storeOp.ok
             /\ storeOp.created = NoBudget
             /\ budgets = prevBudgets

\* February 2024 ends on the 29th
C25_Witness ==
    /\ storeOp.op = "create_monthly_budget"
    /\ storeOp.year = 2024
    /\ storeOp.month = 2
    /\ storeOp.ok
    /\ Len(budgets) = Len(prevBudgets) + 1
    /\ budgets[Len(budgets)].pend = DateTime(2024, 2, 29, 23, 59, 59)

\* C26: each family has at most one stored Budget whose period contains the
\* current instant; creating the budget of a month that already has one adds
\* no second one.
C26_OneCurrentBudget ==
    \A f \in LedgerFamilies : Cardinality(CurrentBudgets(f)) <= 1

(***************************************************************************)
(* Claims about shopping lists.                                            *)
(***************************************************************************)
\* C27: after any sequence of shopping pipeline runs and create_list calls
\* each family has at most one ShoppingList with is_active = true. Every
\* list is created active and nothing deactivates one, so store[f].lists is
\* the number of active lists of family f.
C27_OneActiveList ==
    \A f \in Families : store[f].lists <= 1

(***************************************************************************)
(* One ShoppingList object: its items in list order, changed through the   *)
(* methods of ShoppingList and ShoppingItem.                               *)
(***************************************************************************)
MaxItems == 2

ItemIds == {"milk", "bread", "eggs"}

ShoppingItem(id, purchased) == [id |-> id, is_purchased |-> purchased]

\* a list comprehension [item for item in its if keep-flag matches]
RECURSIVE ItemsWhere(_, _)
ItemsWhere(its, purchased) ==
    IF its = <<>>
    THEN <<>>
    ELSE IF Head(its).is_purchased = purchased
    THEN <<Head(its)>> \o ItemsWhere(Tail(its), purchased)
    ELSE ItemsWhere(Tail(its), purchased)

\* ShoppingList.get_unpurchased_items
get_unpurchased_items(its) == ItemsWhere(its, FALSE)

\* variant: every item counts as purchased
get_purchased_items_All(its) == its

\* ShoppingList.get_purchased_items
get_purchased_items(its) == ItemsWhere(its, TRUE)

\* ShoppingList.is_empty
is_empty(its) == Len(its) = 0

\* ShoppingList.progress, as an exact fraction
progress(its) ==
    IF is_empty(its)
    THEN Fraction(1, 1)
    ELSE Fraction(Len(get_purchased_items(its)), Len(its))

\* ShoppingItem.mark_as_purchased
mark_as_purchased(it) == [it EXCEPT !.is_purchased = TRUE]

\* ShoppingList.remove_item
RECURSIVE remove_item(_, _)
remove_item(its, id) ==
    IF its = <<>>
    THEN <<>>
    ELSE IF Head(its).id # id
    THEN <<Head(its)>> \o remove_item(Tail(its), id)
    ELSE remove_item(Tail(its), id)

\* ShoppingList.update_item(item_id, is_purchased=value): the first item
\* with the id is changed
RECURSIVE update_item(_, _, _)
update_item(its, id, purchased) ==
    IF its = <<>>
    THEN <<>>
    ELSE IF Head(its).id = id
    THEN <<[Head(its) EXCEPT !.is_purchased = purchased]>> \o Tail(its)
    ELSE <<Head(its)>> \o update_item(Tail(its), id, purchased)

\* ShoppingList.mark_all_as_purchased
mark_all_as_purchased(its) ==
    [i \in 1..Len(its) |->
        IF ~its[i].is_purchased THEN mark_as_purchased(its[i]) ELSE its[i]]

\* ShoppingList.clear_purchased_items
clear_purchased_items(its) == get_unpurchased_items(its)

ListCall(op, id) == [op |-> op, id |-> id]

ShopInit ==
    /\ RouterInit
    /\ LedgerIdle
    /\ GoalIdle
    /\ StoreIdle
    /\ listItems = <<>>
    /\ listOp = ListCall("ShoppingList", "none")
    /\ TxIdle
    /\ RaceIdle
    /\ BookIdle

ListAddItem ==
    /\ Len(listItems) < MaxItems
    /\ \E id \in ItemIds, purchased \in BOOLEAN :
         /\ listItems' = Append(listItems, ShoppingItem(id, purchased))
         /\ listOp' = ListCall("add_item", id)
    /\ UNCHANGED offShop

ListMarkItemPurchased ==
    /\ \E i \in 1..Len(listItems) :
         /\ listItems' = [listItems EXCEPT ![i] = mark_as_purchased(@)]
         /\ listOp' = ListCall("mark_as_purchased", listItems[i].id)
    /\ UNCHANGED offShop

ListRemoveItem ==
    /\ \E id \in ItemIds :
         /\ listItems' = remove_item(listItems, id)
         /\ listOp' = ListCall("remove_item", id)
    /\ UNCHANGED offShop

ListUpdateItem ==
    /\ \E id \in ItemIds, purchased \in BOOLEAN :
         /\ listItems' = update_item(listItems, id, purchased)
         /\ listOp' = ListCall("update_item", id)
    /\ UNCHANGED offShop

ListMarkAllPurchased ==
    /\ listItems' = mark_all_as_purchased(listItems)
    /\ listOp' = ListCall("mark_all_as_purchased", "none")
    /\ UNCHANGED offShop

ListClearPurchased ==
    /\ listItems' = clear_purchased_items(listItems)
    /\ listOp' = ListCall("clear_purchased_items", "none")
    /\ UNCHANGED offShop

ShopNext ==
    \/ ListAddItem
    \/ ListMarkItemPurchased
    \/ ListRemoveItem
    \/ ListUpdateItem
    \/ ListMarkAllPurchased
    \/ ListClearPurchased

ShopSpec == ShopInit /\ [][ShopNext]_vars

\* the positions of the items with the given purchase flag
Positions(purchased) ==
    {i \in 1..Len(listItems) : listItems[i].is_purchased = purchased}

\* the k-th smallest position of a set of positions
KthPosition(pos, k) == CHOOSE i \in pos : Cardinality({j \in pos : j < i}) = k - 1

\* r holds exactly the items at the positions pos, in list order
ExactlyInOrder(r, pos) ==
    /\ Len(r) = Cardinality(pos)
    /\ \A k \in 1..Len(r) : r[k] = listItems[KthPosition(pos, k)]

\* C28: get_unpurchased_items returns exactly the items with is_purchased =
\* false and get_purchased_items exactly those with is_purchased = true,
\* each in list order, so the two partition the items; for a non-empty list
\* progress = (number of purchased items) / (number of items), computed from
\* the current items.
C28_PurchasedPartition ==
    /\ ExactlyInOrder(get_unpurchased_items(listItems), Positions(FALSE))
    /\ ExactlyInOrder(get_purchased_items(listItems), Positions(TRUE))
    /\ Len(get_unpurchased_items(listItems)) + Len(get_purchased_items(listItems))
         = Len(listItems)
    /\ (Len(listItems) > 0 =>
          FractionEq(progress(listItems),
                     Fraction(Cardinality(Positions(TRUE)), Len(listItems))))

\* milk unpurchased, bread purchased: unpurchased is [milk], progress 0.5
C28_Witness ==
    /\ listOp.op = "mark_as_purchased"
    /\ listItems = <<ShoppingItem("milk", FALSE), ShoppingItem("bread", TRUE)>>
    /\ get_unpurchased_items(listItems) = <<ShoppingItem("milk", FALSE)>>
    /\ FractionEq(progress(listItems), Fraction(1, 2))

(***************************************************************************)
(* Claims about per-family isolation.                                      *)
(***************************************************************************)
CountOf(m, calls) == Cardinality({i \in 1..Len(calls) : calls[i] = m})

\* the repository calls the step recorded
NewCalls ==
    IF Len(repoLog') >= Len(repoLog)
    THEN SubSeq(repoLog', Len(repoLog) + 1, Len(repoLog'))
    ELSE <<>>

\* C36: state is unchanged on error: whenever EXECUTE_ACTION ends with the
\* error marker because a repository call failed, the repositories hold
\* exactly the state they held before the run, for a failure at any of the
\* handler's repository calls.
ErrorLeavesStore ==
    (ps.node \in ActionNodes /\ ps'.opResult = ErrorMarker /\ Len(repoLog') > Len(repoLog))
    => store' = store

C36_StateUnchangedOnError == [][ErrorLeavesStore]_vars

\* C39: if a field extractor fell back to its default record because the
\* LLM failed or its output could not be parsed, the EXECUTE_ACTION that
\* follows performs no repository mutation, for every extracting intent.
FallbackMutatesNothing ==
    (ps.node \in ActionNodes /\ "extract" \in llmFailed /\ ps'.node # ps.node)
    => Mutations(NewCalls) = {}

C39_FallbackNoMutation == [][FallbackMutatesNothing]_vars

\* C30: a budget or shopping pipeline run executed for family A mutates only
\* entities of family A: in every step the entities of every other family
\* are unchanged, and the lists and items the step's create_list and
\* add_item calls created are the run's family's.
IsolationStep ==
    /\ \A f \in Families : f # msg.family => store'[f] = store[f]
    /\ (msg.family \in Families /\ Len(repoLog') > Len(repoLog)) =>
         /\ store'[msg.family].lists - store[msg.family].lists
              <= CountOf("create_list", NewCalls)
         /\ (CountOf("remove_item", NewCalls) = 0 =>
               store'[msg.family].items - store[msg.family].items
                 <= CountOf("add_item", NewCalls))

MaxTxs == 2

AmountInputs == {0 - 5, 0, 1500}

TransactionTypes == {"income", "expense"}

BudgetCategories == {"food", "income"}

\* validate_amount, the only validator of Transaction
TransactionValid(amount) == amount > 0

Transaction(amount, category, transaction_type) ==
    [amount |-> amount, category |-> category, transaction_type |-> transaction_type]

TxCall(op, raised) == [op |-> op, raised |-> raised]

\* _to_model: the domain object built from a stored row, when its
\* construction does not raise
to_model(row) == IF TransactionValid(row.amount) THEN row ELSE NoTransaction

TxInit ==
    /\ RouterInit
    /\ LedgerIdle
    /\ GoalIdle
    /\ StoreIdle
    /\ ShopIdle
    /\ txs = <<>>
    /\ txModel = NoTransaction
    /\ txOp = TxCall("TransactionRepository", FALSE)
    /\ RaceIdle
    /\ BookIdle

\* Transaction(...): the constructor of the domain model
ModelTransaction ==
    \E amount \in AmountInputs, category \in BudgetCategories, t \in TransactionTypes :
        /\ txModel' = to_model(Transaction(amount, category, t))
        /\ txOp' = TxCall("Transaction", ~TransactionValid(amount))
        /\ UNCHANGED txs
        /\ UNCHANGED offTx

\* Transaction.create_expense
ModelCreateExpense ==
    \E amount \in AmountInputs, category \in BudgetCategories :
        /\ txModel' = to_model(Transaction(amount, category, "expense"))
        /\ txOp' = TxCall("Transaction.create_expense", ~TransactionValid(amount))
        /\ UNCHANGED txs
        /\ UNCHANGED offTx

\* Transaction.create_income
ModelCreateIncome ==
    \E amount \in AmountInputs :
        /\ txModel' = to_model(Transaction(amount, "income", "income"))
        /\ txOp' = TxCall("Transaction.create_income", ~TransactionValid(amount))
        /\ UNCHANGED txs
        /\ UNCHANGED offTx

\* TransactionRepository.create_transaction: the row is added and committed,
\* then converted to the domain model
RepoCreateTransaction ==
    \E amount \in AmountInputs, category \in BudgetCategories, t \in TransactionTypes :
        /\ Len(txs) < MaxTxs
        /\ txs' = Append(txs, Transaction(amount, category, t))
        /\ txModel' = to_model(Transaction(amount, category, t))
        /\ txOp' = TxCall("create_transaction", ~TransactionValid(amount))
        /\ UNCHANGED offTx

\* TransactionRepository.create_expense
RepoCreateExpense ==
    \E amount \in AmountInputs, category \in BudgetCategories :
        /\ Len(txs) < MaxTxs
        /\ txs' = Append(txs, Transaction(amount, category, "expense"))
        /\ txModel' = to_model(Transaction(amount, category, "expense"))
        /\ txOp' = TxCall("create_expense", ~TransactionValid(amount))
        /\ UNCHANGED offTx

\* TransactionRepository.create_income
RepoCreateIncome ==
    \E amount \in AmountInputs :
        /\ Len(txs) < MaxTxs
        /\ txs' = Append(txs, Transaction(amount, "income", "income"))
        /\ txModel' = to_model(Transaction(amount, "income", "income"))
        /\ txOp' = TxCall("create_income", ~TransactionValid(amount))
        /\ UNCHANGED offTx

\* the loop over kwargs, for a call that gives one of amount, category and
\* transaction_type: the attribute is set on the row (a call that gives
\* several sets them one after the other)
SetAttrs(row) ==
    {[row EXCEPT !.amount = a] : a \in AmountInputs}
    \cup {[row EXCEPT !.category = c] : c \in BudgetCategories}
    \cup {[row EXCEPT !.transaction_type = t] : t \in TransactionTypes}

\* TransactionRepository.update_transaction: None when the id is unknown;
\* otherwise the attributes are set, the row is committed, then converted
RepoUpdateTransaction ==
    \E i \in 1..MaxTxs :
        /\ IF i > Len(txs)
           THEN /\ txModel' = NoTransaction
                /\ txOp' = TxCall("update_transaction", FALSE)
                /\ UNCHANGED txs
           ELSE \E row \in SetAttrs(txs[i]) :
                /\ txs' = [txs EXCEPT ![i] = row]
                /\ txModel' = to_model(row)
                /\ txOp' = TxCall("update_transaction", ~TransactionValid(row.amount))
        /\ UNCHANGED offTx

TxNext ==
    \/ ModelTransaction
    \/ ModelCreateExpense
    \/ ModelCreateIncome
    \/ RepoCreateTransaction
    \/ RepoCreateExpense
    \/ RepoCreateIncome
    \/ RepoUpdateTransaction

TxSpec == TxInit /\ [][TxNext]_vars

\* every Transaction that exists: the stored rows and the constructed model
ExistingTransactions ==
    {txs[i] : i \in 1..Len(txs)} \cup (IF txModel = NoTransaction THEN {} ELSE {txModel})

\* C29: every Transaction that exists after any sequence of
\* create_transaction, create_expense, create_income and update_transaction
\* has amount > 0, and an income transaction has the category income.
C29_TransactionInvariant ==
    \A t \in ExistingTransactions :
        /\ t.amount > 0
        /\ (t.transaction_type = "income" => t.category = "income")

(***************************************************************************)
(* Interleaved pipeline runs of one family: the EXECUTE_ACTION handlers    *)
(* of budget_graph.py (add_expense, add_income) and shopping_graph.py      *)
(* (add_item), one step per LLM call and per repository call.              *)
(***************************************************************************)
Runs == {1, 2}

RunKinds == {"add_expense", "add_income", "add_item"}

\* datetime.now() of the runs, inside the current budget's period
RaceNow == PeriodStart + 1

\* the date of the transaction: now, or a date the extractor supplied
RunDates == {RaceNow, PeriodEnd + 1}

\* the budgets a family may hold when the runs start
StartBudgets ==
    {NoBudget,
     Repo_create_monthly_budget("fam1", 0, <<>>),
     Repo_create_monthly_budget("fam1", 0, [c \in {"food"} |-> 3000]),
     Repo_add_transaction_to_budget(
         Repo_create_monthly_budget("fam1", 0, [c \in {"food"} |-> 3000]),
         [date |-> RaceNow, family |-> "fam1", type |-> "expense",
          category |-> "food", amount |-> 2000]).budget}

NoMetadata == [has |-> "nothing"]

\* the nodes of a run that are LLM calls, and the node that follows each
LLMNodes == {"classify_intent", "extract_data", "generate_response"}

AfterLLM(kind, node) ==
    IF node = "classify_intent" THEN "extract_data"
    ELSE IF node = "generate_response" THEN "done"
    ELSE IF kind = "add_expense" THEN "create_expense"
    ELSE IF kind = "add_income" THEN "create_income"
    ELSE "get_active_list_for_family"

Run(kind, amount, date, item) ==
    [kind |-> kind, pc |-> "classify_intent", amount |-> amount, date |-> date,
     item |-> item, snapshot |-> NoBudget, list |-> 0,
     operation_result |-> "none", operation_metadata |-> NoMetadata]

\* the transaction a run creates
RunTransaction(r) ==
    [date |-> r.date, family |-> "fam1",
     type |-> IF r.kind = "add_income" THEN "income" ELSE "expense",
     category |-> IF r.kind = "add_income" THEN "income" ELSE "food",
     amount |-> r.amount]

RaceInit ==
    /\ RouterInit
    /\ LedgerIdle
    /\ GoalIdle
    /\ StoreIdle
    /\ ShopIdle
    /\ TxIdle
    /\ \E kind \in RunKinds, a1, a2 \in TxAmounts, d1, d2 \in RunDates,
          b \in StartBudgets, lists \in {<<>>, <<{}>>} :
         /\ raceRuns = <<Run(kind, a1, d1, "milk"), Run(kind, a2, d2, "bread")>>
         /\ raceDb = [budget |-> IF kind = "add_item" THEN NoBudget ELSE b,
                      txs |-> <<>>,
                      lists |-> IF kind = "add_item" THEN lists ELSE <<>>]
    /\ raceDb0 = raceDb
    /\ BookIdle

\* an LLM call of a run returns
RaceLLMCall ==
    \E r \in Runs :
        /\ raceRuns[r].pc \in LLMNodes
        /\ raceRuns' = [raceRuns EXCEPT ![r].pc = AfterLLM(raceRuns[r].kind, @)]
        /\ UNCHANGED <<raceDb, raceDb0>>
        /\ UNCHANGED offRace

\* transaction_repository.create_expense
RaceCreateExpense ==
    \E r \in Runs :
        /\ raceRuns[r].pc = "create_expense"
        /\ raceDb' = [raceDb EXCEPT !.txs = Append(@, RunTransaction(raceRuns[r]))]
        /\ raceRuns' = [raceRuns EXCEPT ![r].pc = "get_current_budget"]
        /\ UNCHANGED raceDb0
        /\ UNCHANGED offRace

\* transaction_repository.create_income
RaceCreateIncome ==
    \E r \in Runs :
        /\ raceRuns[r].pc = "create_income"
        /\ raceDb' = [raceDb EXCEPT !.txs = Append(@, RunTransaction(raceRuns[r]))]
        /\ raceRuns' = [raceRuns EXCEPT ![r].pc = "get_current_budget"]
        /\ UNCHANGED raceDb0
        /\ UNCHANGED offRace

\* the end of the handler: operation_result stays at its default and the
\* metadata collected so far is handed on
FinishAction(r, metadata) ==
    [r EXCEPT !.pc = "generate_response",
              !.operation_result = OpSuccess,
              !.operation_metadata = metadata]

\* budget_repository.get_current_budget: the Budget model built from the
\* stored rows; without a current budget the handler is finished
RaceGetCurrentBudget ==
    \E r \in Runs :
        /\ raceRuns[r].pc = "get_current_budget"
        /\ raceRuns' = [raceRuns EXCEPT ![r] =
             IF raceDb.budget = NoBudget
             THEN FinishAction(@, NoMetadata)
             ELSE [@ EXCEPT !.pc = "add_transaction_to_budget",
                            !.snapshot = raceDb.budget]]
        /\ UNCHANGED <<raceDb, raceDb0>>
        /\ UNCHANGED offRace

\* variant: the budget is written from the Budget object the handler holds
BudgetRow_FromSnapshot(db, r) == r.snapshot

\* the budget row add_transaction_to_budget updates: queried by id in the call
BudgetRow(db, r) == db.budget

\* sum(category.spent for category in self.category_budgets.values())
RECURSIVE SumSpent(_, _)
SumSpent(cats, todo) ==
    IF todo = {}
    THEN 0
    ELSE LET c == CHOOSE x \in todo : TRUE
         IN cats[c].spent + SumSpent(cats, todo \ {c})

\* Budget.get_current_balance
get_current_balance(b) == b.incomeActual - SumSpent(b.cats, DOMAIN b.cats)

\* the operation_metadata the handler fills from current_budget after
\* add_transaction_to_budget
RunMetadata(r) ==
    IF r.kind = "add_income"
    THEN [has |-> "budget", income_actual |-> r.snapshot.incomeActual,
          balance |-> get_current_balance(r.snapshot)]
    ELSE IF "food" \in DOMAIN r.snapshot.cats
    THEN [has |-> "category",
          spent |-> r.snapshot.cats["food"].spent,
          limit |-> r.snapshot.cats["food"].limit,
          remaining |-> get_remaining(r.snapshot.cats["food"]),
          is_exceeded |-> is_exceeded(r.snapshot.cats["food"])]
    ELSE NoMetadata

\* budget_repository.add_transaction_to_budget (its result is not looked
\* at), then the metadata
RaceAddTransactionToBudget ==
    \E r \in Runs :
        /\ raceRuns[r].pc = "add_transaction_to_budget"
        /\ raceDb' = [raceDb EXCEPT !.budget =
             Repo_add_transaction_to_budget(BudgetRow(raceDb, raceRuns[r]),
                                            RunTransaction(raceRuns[r])).budget]
        /\ raceRuns' = [raceRuns EXCEPT ![r] = FinishAction(@, RunMetadata(@))]
        /\ UNCHANGED raceDb0
        /\ UNCHANGED offRace

\* the first active list of the family, 0 for None
get_active_list_for_family(db) == IF db.lists = <<>> THEN 0 ELSE 1

\* repository.get_active_list_for_family
RaceGetActiveList ==
    \E r \in Runs :
        /\ raceRuns[r].pc = "get_active_list_for_family"
        /\ raceRuns' = [raceRuns EXCEPT
             ![r].list = get_active_list_for_family(raceDb),
             ![r].pc = IF get_active_list_for_family(raceDb) = 0
                       THEN "create_list" ELSE "add_item"]
        /\ UNCHANGED <<raceDb, raceDb0>>
        /\ UNCHANGED offRace

\* repository.create_list: a new row with is_active = True
RaceCreateList ==
    \E r \in Runs :
        /\ raceRuns[r].pc = "create_list"
        /\ raceDb' = [raceDb EXCEPT !.lists = Append(@, {})]
        /\ raceRuns' = [raceRuns EXCEPT ![r].list = Len(raceDb.lists) + 1,
                                        ![r].pc = "add_item"]
        /\ UNCHANGED raceDb0
        /\ UNCHANGED offRace

\* repository.add_item(list_id=active_list.id, ...)
RaceAddItem ==
    \E r \in Runs :
        /\ raceRuns[r].pc = "add_item"
        /\ raceDb' = [raceDb EXCEPT !.lists[raceRuns[r].list] = @ \cup {raceRuns[r].item}]
        /\ raceRuns' = [raceRuns EXCEPT ![r] = FinishAction(@, NoMetadata)]
        /\ UNCHANGED raceDb0
        /\ UNCHANGED offRace

RaceNext ==
    \/ RaceLLMCall
    \/ RaceCreateExpense
    \/ RaceCreateIncome
    \/ RaceGetCurrentBudget
    \/ RaceAddTransactionToBudget
    \/ RaceGetActiveList
    \/ RaceCreateList
    \/ RaceAddItem

RaceSpec == RaceInit /\ [][RaceNext]_vars

BothDone(kind) == \A r \in Runs : raceRuns[r].kind = kind /\ raceRuns[r].pc = "done"

\* spent of the category in a stored budget, 0 for a category without a row
SpentOf(b, c) == IF c \in DOMAIN b.cats THEN b.cats[c].spent ELSE 0

\* C32: no lost update on the ledger: for any interleaving of two
\* add_expense runs of one family for the same category of the same current
\* budget (transactions dated now), suspended at LLM calls and between
\* repository calls, after both runs finish the stored spent equals its
\* initial value plus the sum of both amounts.
C32_NoLostUpdate ==
    (/\ BothDone("add_expense")
     /\ raceDb0.budget # NoBudget
     /\ \A r \in Runs : raceRuns[r].date = RaceNow)
    => SpentOf(raceDb.budget, "food")
         = SpentOf(raceDb0.budget, "food") + raceRuns[1].amount + raceRuns[2].amount

\* both runs read the budget before either applied its expense
C32_Witness ==
    /\ BothDone("add_expense")
    /\ \A r \in Runs : raceRuns[r].date = RaceNow
    /\ \A r \in Runs : raceRuns[r].snapshot = raceDb0.budget
    /\ raceDb0.budget # NoBudget
    /\ SpentOf(raceDb0.budget, "food") = 2000
    /\ SpentOf(raceDb.budget, "food") = 5500

\* C33: for any interleaving of two add_item runs of a family that has no
\* active list at the start, after both runs finish the family has exactly
\* one active ShoppingList and it holds the items of both runs.
C33_OneListBothItems ==
    (BothDone("add_item") /\ raceDb0.lists = <<>>)
    => /\ Len(raceDb.lists) = 1
       /\ {raceRuns[1].item, raceRuns[2].item} \subseteq raceDb.lists[1]

\* run r has just finished its handler and the other run has not yet
\* made a repository call
FinishedAlone(r) ==
    /\ raceRuns[r].pc = "generate_response"
    /\ \A o \in Runs \ {r} : raceRuns[o].pc \in {"classify_intent", "extract_data"}

\* C34: after an add_expense run that applies the expense to the family's
\* current budget, the operation_metadata fields spent, limit, remaining and
\* is_exceeded handed to GENERATE_RESPONSE equal the values of the stored
\* CategoryBudget after the expense has been applied; likewise add_income
\* reports the income_actual and balance that include the new income.
C34_MetadataAfterApply ==
    \A r \in Runs :
        (/\ FinishedAlone(r)
         /\ raceRuns[r].snapshot # NoBudget
         /\ raceRuns[r].date = RaceNow)
        => LET md == raceRuns[r].operation_metadata
               b == raceDb.budget
           IN IF raceRuns[r].kind = "add_expense"
              THEN /\ md.has = "category"
                   /\ md.spent = b.cats["food"].spent
                   /\ md.limit = b.cats["food"].limit
                   /\ md.remaining = get_remaining(b.cats["food"])
                   /\ md.is_exceeded = is_exceeded(b.cats["food"])
              ELSE /\ md.has = "budget"
                   /\ md.income_actual = b.incomeActual
                   /\ md.balance = get_current_balance(b)

\* C35: if an add_expense or add_income run ends with operation_result
\* success and the family has a current budget, the budget was updated by
\* the run: the category's spent (respectively income_actual) is larger by
\* exactly the transaction amount, for every transaction date the extractor
\* may supply.
C35_SuccessMeansApplied ==
    \A r \in Runs :
        (/\ FinishedAlone(r)
         /\ raceRuns[r].operation_result = OpSuccess
         /\ raceDb0.budget # NoBudget)
        => IF raceRuns[r].kind = "add_expense"
           THEN SpentOf(raceDb.budget, "food")
                  = SpentOf(raceDb0.budget, "food") + raceRuns[r].amount
           ELSE raceDb.budget.incomeActual
                  = raceDb0.budget.incomeActual + raceRuns[r].amount

(***************************************************************************)
(* Transactions linked to a stored budget: TransactionRepository and       *)
(* BudgetRepository.add_transaction_to_budget of                           *)
(* storage/relational/budget.py.                                           *)
(***************************************************************************)
MaxBookTxs == 2

MaxBookOps == 3

\* a TransactionEntity row; stored is FALSE once the row is deleted, while
\* the caller still holds the Transaction object
BookRow(transaction_type, category, amount) ==
    [transaction_type |-> transaction_type, category |-> category, amount |-> amount,
     budget_id |-> "none", stored |-> TRUE]

\* the Transaction object of a row, dated inside the budget's period
BookTransaction(row) ==
    [date |-> PeriodStart + 1, family |-> "fam1", type |-> row.transaction_type,
     category |-> row.category, amount |-> row.amount]

\* a stored budget created with zero spent
BookInit ==
    /\ RouterInit
    /\ LedgerIdle
    /\ GoalIdle
    /\ StoreIdle
    /\ ShopIdle
    /\ TxIdle
    /\ RaceIdle
    /\ bookTxs = <<>>
    /\ \E limits \in {<<>>, [c \in {"food"} |-> 3000]} :
         bookBudget = Repo_create_monthly_budget("fam1", 0, limits)
    /\ bookOps = 0

\* TransactionRepository.create_expense, without a budget_id
BookCreateExpense ==
    /\ bookOps < MaxBookOps
    /\ Len(bookTxs) < MaxBookTxs
    /\ \E c \in ExpenseCategories, a \in TxAmounts :
         bookTxs' = Append(bookTxs, BookRow("expense", c, a))
    /\ bookOps' = bookOps + 1
    /\ UNCHANGED bookBudget
    /\ UNCHANGED offBook

\* TransactionRepository.create_income, without a budget_id
BookCreateIncome ==
    /\ bookOps < MaxBookOps
    /\ Len(bookTxs) < MaxBookTxs
    /\ \E a \in TxAmounts :
         bookTxs' = Append(bookTxs, BookRow("income", "income", a))
    /\ bookOps' = bookOps + 1
    /\ UNCHANGED bookBudget
    /\ UNCHANGED offBook

\* the budget after add_transaction_to_budget was given the transaction
LinkedBudget(b, row) == Repo_add_transaction_to_budget(b, BookTransaction(row)).budget

\* BudgetRepository.add_transaction_to_budget: the row is linked (created
\* again when it is missing) and the budget's totals are increased
BookAddTransactionToBudget ==
    /\ bookOps < MaxBookOps
    /\ \E i \in 1..Len(bookTxs) :
         /\ bookBudget' = LinkedBudget(bookBudget, bookTxs[i])
         /\ bookTxs' = [bookTxs EXCEPT ![i].budget_id = "b1", ![i].stored = TRUE]
    /\ bookOps' = bookOps + 1
    /\ UNCHANGED offBook

\* TransactionRepository.update_transaction(id, amount=...): only the row
\* is changed
BookUpdateTransaction ==
    /\ bookOps < MaxBookOps
    /\ \E i \in 1..Len(bookTxs), a \in TxAmounts :
         /\ bookTxs[i].stored
         /\ bookTxs' = [bookTxs EXCEPT ![i].amount = a]
    /\ bookOps' = bookOps + 1
    /\ UNCHANGED bookBudget
    /\ UNCHANGED offBook

\* TransactionRepository.delete_transaction: only the row is deleted
BookDeleteTransaction ==
    /\ bookOps < MaxBookOps
    /\ \E i \in 1..Len(bookTxs) :
         /\ bookTxs[i].stored
         /\ bookTxs' = [bookTxs EXCEPT ![i].stored = FALSE]
    /\ bookOps' = bookOps + 1
    /\ UNCHANGED bookBudget
    /\ UNCHANGED offBook

BookNext ==
    \/ BookCreateExpense
    \/ BookCreateIncome
    \/ BookAddTransactionToBudget
    \/ BookUpdateTransaction
    \/ BookDeleteTransaction

BookSpec == BookInit /\ [][BookNext]_vars

\* the sum of the amounts of the stored rows linked to the budget, of one
\* type and category
RECURSIVE LinkedSum(_, _, _)
LinkedSum(rows, transaction_type, category) ==
    IF rows = <<>>
    THEN 0
    ELSE (IF /\ Head(rows).stored
             /\ Head(rows).budget_id = "b1"
             /\ Head(rows).transaction_type = transaction_type
             /\ Head(rows).category = category
          THEN Head(rows).amount ELSE 0)
         + LinkedSum(Tail(rows), transaction_type, category)

\* C37: ledger consistency: for a stored budget created with zero spent,
\* after any sequence of create_expense, create_income,
\* add_transaction_to_budget, update_transaction and delete_transaction, each
\* category's spent equals the sum of the amounts of the expense transactions
\* linked to the budget in that category and income_actual equals the sum of
\* its linked income transactions; applying a transaction twice counts once.
C37_LedgerConsistency ==
    /\ \A c \in ExpenseCategories :
         SpentOf(bookBudget, c) = LinkedSum(bookTxs, "expense", c)
    /\ bookBudget.incomeActual = LinkedSum(bookTxs, "income", "income")

====
